---- MODULE Spec2Model ----
(***************************************************************************)
(* Model of the schema-extraction engine of drizzle-orm-visualizer:        *)
(*   src/src/lib/drizzle-parser.ts   parseDrizzleSchema and its fallback   *)
(*   src/unnamed/part_005            parsePrismaSchema and its fallback    *)
(*   src/unnamed/part_006            drizzle-utils (ids, positions, ...)   *)
(*                                                                         *)
(* Source text is represented by the sequence of its top-level items.      *)
(* Every item stands for one fixed rendering, so that both the syntax-tree *)
(* passes and the regular expressions of the fallback parsers can be       *)
(* evaluated on it:                                                        *)
(*                                                                         *)
(*  fluent dialect                                                         *)
(*   table, direct      export const ID = pgTable('NAME', {                *)
(*                        col: base('arg').mod1().mod2(),                  *)
(*                      });                                                *)
(*   table, curried     export const ID = pgTableCreator(prefix)('NAME', { *)
(*   table, namespaced  export const ID = appSchema.table('NAME', {        *)
(*   enum               export const ID = pgEnum('ID', ['v1', 'v2']);      *)
(*   relations          export const SRCRelations = relations(SRC,         *)
(*                        ({ one, many }) => ({                            *)
(*                          p: one(TGT, { fields: [SRC.c],                 *)
(*                                        references: [TGT.d] }),          *)
(*                          q: many(TGT), }));                             *)
(*   import             import { pgTable, serial } from                    *)
(*                        'drizzle-orm/pg-core';                           *)
(*   garbage            export const = ;      (not parseable)              *)
(*  block dialect                                                          *)
(*   model              model NAME {                                       *)
(*                        field Type? @attr @attr(args)                    *)
(*                        @@index([a, b])                                  *)
(*                      }                                                  *)
(*   enum               enum NAME {                                        *)
(*                        V1                                               *)
(*                        V2                                               *)
(*                      }                                                  *)
(*   datasource         datasource db {                                    *)
(*                        provider = "postgresql"                          *)
(*                      }                                                  *)
(*  An item with commented = TRUE is the same text wrapped in a block      *)
(*  comment.  A table item with exported = FALSE lacks the export keyword. *)
(***************************************************************************)
EXTENDS Integers, Sequences, FiniteSets, TLC

VARIABLES
  input,    \* the argument handed to the parser (schemaCode)
  call,     \* "none" before the call, afterwards the name of the function called
  result,   \* what the call produced: a returned ParseResult or an escaped exception
  tiers,    \* what the call went through, in order: "structural" (the structural
            \* tier was entered), "raised" (an exception was caught), "fallback"
            \* (the fallback parser was called)
  \* DrizzleFlowApp (src/src/components/drizzle-flow/DrizzleFlowApp.tsx) and
  \* InputPanel (src/unnamed/part_002)
  mounted,      \* the component has rendered for the first time
  schema,       \* useState('') of DrizzleFlowApp, as of the last render
  localSchema,  \* useState(schema) of InputPanel, as of the last render
  updates,      \* state updates requested since the last render, in order
  effects,      \* effects of the last render that have not run yet, in order
  storage,      \* localStorage under SCHEMA_STORAGE_KEY: None or Some(text)
  saved,        \* what storage held when the component mounted
  edits,        \* how many times the user has changed the editor's text
  rejected,     \* localStorage has thrown in a getItem or setItem of the component
  \* the loops of the parsers, one run of one loop
  loop,         \* "idle", the loop that is running, or "returned"
  chars,        \* the string an exec loop or the scanner runs over
  position,     \* lastIndex of the regular expression, i of the scanner, or the
                \* layer currentExpr stands at
  expr,         \* the column expression a chain is unwound from
  unwound,      \* the method names unwound so far
  syntaxTree,   \* the syntax tree walkAST walks
  pending,      \* the nodes whose walkAST call is still to come, next first
  seen,         \* where matches started, the characters scanned, the nodes called
                \* back, in order
  \* handlePanelStateChange of DrizzleFlowApp and its timers
  panelState,   \* useState<PanelState>(PanelState.EXPANDED)
  isAnimating,  \* useState(false)
  panelSize,    \* the size last handed to panelRef.current.resize
  timers,       \* the setTimeout callbacks that have not run, with the time left
  requested,    \* the state of the last handlePanelStateChange call, None before it
  requests      \* how many times handlePanelStateChange has been called

parserVars == <<input, call, result, tiers>>
appVars == <<mounted, schema, localSchema, updates, effects, storage, saved, edits, rejected>>
loopVars == <<loop, chars, position, expr, unwound, syntaxTree, pending, seen>>
panelVars == <<panelState, isAnimating, panelSize, timers, requested, requests>>
vars == <<input, call, result, tiers,
          mounted, schema, localSchema, updates, effects, storage, saved, edits, rejected,
          loop, chars, position, expr, unwound, syntaxTree, pending, seen,
          panelState, isAnimating, panelSize, timers, requested, requests>>

(***************************************************************************)
(* Bounds                                                                  *)
(***************************************************************************)
MaxItems == 2
\* how many times the user changes the text of the editor
MaxEdits == 2
\* how long the strings, call chains and syntax trees of the loops are
MaxLen == 4
\* how many times the panel's state is requested
MaxRequests == 3

(***************************************************************************)
(* Generic helpers                                                         *)
(***************************************************************************)
Range(s) == {s[i] : i \in 1..Len(s)}

Some(x) == <<x>>
None == <<>>

RECURSIVE SeqOfSeqs(_, _)
\* all sequences over S of length at most n
SeqOfSeqs(S, n) ==
  IF n = 0 THEN {<<>>}
  ELSE LET shorter == SeqOfSeqs(S, n - 1)
       IN  shorter \cup {Append(s, x) : s \in {t \in shorter : Len(t) = n - 1}, x \in S}

RECURSIVE Flatten(_)
Flatten(ss) == IF ss = <<>> THEN <<>> ELSE Head(ss) \o Flatten(Tail(ss))

RECURSIVE JoinStr(_, _)
\* Array.prototype.join
JoinStr(ss, sep) ==
  IF ss = <<>> THEN ""
  ELSE IF Len(ss) = 1 THEN ss[1]
  ELSE ss[1] \o sep \o JoinStr(Tail(ss), sep)

\* index of the first element satisfying P, 0 when there is none
FirstIndex(s, P(_)) ==
  IF \E i \in 1..Len(s) : P(s[i])
  THEN CHOOSE i \in 1..Len(s) : P(s[i]) /\ \A j \in 1..(i - 1) : ~P(s[j])
  ELSE 0

(***************************************************************************)
(* drizzle-utils (src/unnamed/part_006)                                    *)
(***************************************************************************)
DEFAULT_Y_OFFSET == 50
TABLE_SPACING_X == 250
TABLE_SPACING_Y == 200

\* The values Math.random() * 100 - 50 is sampled at: both ends of [-50, 50).
RandomOffsets == {-50, 49}

\* the sequences of n draws of the random offset
Draws(n) == [1..n -> RandomOffsets]

\* generateTablePosition(index), offset being this call's Math.random() * 100 - 50
generateTablePosition(index, offset) ==
  [x |-> 50 + (index * TABLE_SPACING_X) + offset,
   y |-> DEFAULT_Y_OFFSET + (index \div 3) * TABLE_SPACING_Y]

generateRelationshipId(sourceTable, sourceColumn, targetTable) ==
  "rel-" \o sourceTable \o "-" \o sourceColumn \o "-" \o targetTable

(***************************************************************************)
(* Text of a fluent column line, as the fallback's regular expressions see *)
(* it.  The modifier text is what follows base(args) up to the comma.      *)
(***************************************************************************)
\* the rendering of one modifier call carries the literal "name()" exactly
\* when the call has no argument; references always carries its argument
ModifierText(col) == col.mods

\* parseColumnModifiers: substring tests on the modifier text
parseColumnModifiers(modifiers) ==
  [isPrimaryKey |-> \E i \in 1..Len(modifiers) : modifiers[i].name = "primaryKey",
   isUnique     |-> \E i \in 1..Len(modifiers) : modifiers[i].name = "unique",
   isNotNull    |-> \E i \in 1..Len(modifiers) : modifiers[i].name = "notNull"]

\* extractReferences: the first .references(() => table.column) of the text
extractReferences(modifiers) ==
  LET isRef(m) == m.name = "references" /\ m.target # None
      i == FirstIndex(modifiers, isRef)
  IN  IF i = 0 THEN None ELSE Some(modifiers[i].target[1])

(***************************************************************************)
(* ParseResult (src/src/types/drizzle.ts).  An optional field is a         *)
(* sequence of length at most one: None when absent, Some(v) when present. *)
(***************************************************************************)
Success(tables, relationships, enums) ==
  [outcome |-> "return", success |-> TRUE,
   data |-> Some([tables |-> tables, relationships |-> relationships, enums |-> enums]),
   error |-> None]

Failure(message) ==
  [outcome |-> "return", success |-> FALSE, data |-> None, error |-> Some(message)]

\* an exception leaving the function instead of a ParseResult
Escaped(message) ==
  [outcome |-> "throw", success |-> FALSE, data |-> None, error |-> Some(message)]

NoResult == [outcome |-> "none", success |-> FALSE, data |-> None, error |-> None]

\* what a block of code inside try did: a value, or an exception with its message
Value(v) == [threw |-> FALSE, value |-> v, message |-> ""]
Raised(message) == [threw |-> TRUE, value |-> NoResult, message |-> message]

(***************************************************************************)
(* Input text                                                              *)
(***************************************************************************)
IsText(schemaCode) == schemaCode.kind = "text"

\* !schemaCode || typeof schemaCode !== 'string'
InvalidInput(schemaCode) == ~IsText(schemaCode) \/ schemaCode.items = <<>>

\* the two comment-removing replaces and trim(): commented items vanish
CleanCode(schemaCode) == SelectSeq(schemaCode.items, LAMBDA it : ~it.commented)

\* the item's text contains pgTable, mysqlTable or sqliteTable
MentionsTableCtor(it) ==
  \/ it.kind = "import"
  \/ it.kind = "table" /\ it.shape \in {"direct", "curried"}

LooksLikeDrizzle(cleanedCode) ==
  \E i \in 1..Len(cleanedCode) : MentionsTableCtor(cleanedCode[i])

\* the item's text contains "model " / "enum "
LooksLikePrisma(cleanedCode) ==
  \E i \in 1..Len(cleanedCode) : cleanedCode[i].kind \in {"model", "penum"}

(***************************************************************************)
(* Syntax-tree construction (acorn with the TypeScript plugin).  The       *)
(* parser is an external library: it rejects text that is not a module of  *)
(* the language, and a second const declaration of a name.                 *)
(***************************************************************************)
DeclaredName(it) ==
  IF it.kind \in {"table", "enum", "shared", "index"} THEN Some(it.id)
  ELSE IF it.kind = "relations" THEN Some(it.source \o "Relations")
  ELSE None

AcornParses(cleanedCode) ==
  /\ \A i \in 1..Len(cleanedCode) :
       cleanedCode[i].kind \in {"table", "enum", "shared", "index", "relations", "import"}
  /\ \A i, j \in 1..Len(cleanedCode) :
       (i # j /\ DeclaredName(cleanedCode[i]) # None)
         => DeclaredName(cleanedCode[i]) # DeclaredName(cleanedCode[j])

(***************************************************************************)
(* Fluent-dialect structural parser (src/src/lib/drizzle-parser.ts)        *)
(***************************************************************************)
\* typeMapping[columnType] || columnType
typeMapping(columnType) ==
  CASE columnType = "doublePrecision" -> "double precision"
    [] columnType = "pgEnum" -> "enum"
    [] OTHER -> columnType

\* columnArgs: an object literal is flattened, a string or number literal is
\* pushed as it is, any other argument is skipped
columnArgsOf(args) ==
  LET kept == SelectSeq(args, LAMBDA a : a.k \in {"obj", "str", "num"})
  IN  [i \in 1..Len(kept) |->
         IF kept[i].k = "obj" THEN "{ " \o kept[i].v \o " }" ELSE kept[i].v]

\* parseReferencesFromAST: walks the chain from the outermost call inwards and
\* stops at the first references call
parseReferencesFromAST(mods) ==
  LET refs == {i \in 1..Len(mods) : mods[i].name = "references"}
  IN  IF refs = {} THEN None
      ELSE LET outer == CHOOSE i \in refs : \A j \in refs : j <= i
           IN  IF mods[outer].target # None THEN Some(mods[outer].target[1]) ELSE None

\* chainedCalls.findIndex over default / defaultNow / defaultRandom
defaultValueOf(chainedCalls) ==
  LET isDefault(c) == c \in {"default", "defaultNow", "defaultRandom"}
      i == FirstIndex(chainedCalls, isDefault)
  IN  IF i = 0 THEN None
      ELSE IF chainedCalls[i] = "defaultNow" THEN Some("now()")
      ELSE IF chainedCalls[i] = "defaultRandom" THEN Some("gen_random_uuid()")
      ELSE Some("default")

\* parseColumnFromAST(prop)
parseColumnFromAST(prop) ==
  LET chainedCalls == [i \in 1..Len(prop.mods) |-> prop.mods[i].name]
      columnType == IF prop.root.call THEN prop.root.name ELSE ""
      columnArgs == IF prop.root.call THEN columnArgsOf(prop.args) ELSE <<>>
      displayType == typeMapping(columnType)
      has(m) == \E i \in 1..Len(chainedCalls) : chainedCalls[i] = m
  IN  [name |-> prop.name,
       type |-> displayType \o
                (IF Len(columnArgs) > 0 THEN "(" \o JoinStr(columnArgs, ", ") \o ")" ELSE ""),
       isPrimaryKey |-> has("primaryKey"),
       isUnique |-> has("unique"),
       isNotNull |-> has("notNull"),
       references |-> IF has("references") THEN parseReferencesFromAST(prop.mods) ELSE None,
       defaultValue |-> defaultValueOf(chainedCalls)]

\* the columns of one property of the columns object: a column, or the
\* columns of the shared group a spread element names
columnsOfProp(prop, sharedSchemas) ==
  IF prop.prop = "column" THEN <<parseColumnFromAST(prop)>>
  ELSE IF prop.group \in DOMAIN sharedSchemas
       THEN [i \in 1..Len(sharedSchemas[prop.group]) |->
               parseColumnFromAST(sharedSchemas[prop.group][i])]
       ELSE <<>>

\* parseTableFromAST drawing the table's id as well: the random offset that
\* places the table also decides a suffix of its id
parseTableFromAST_RandomId(declaration, tableIndex, sharedSchemas, offset) ==
  [id |-> IF offset < 0 THEN declaration.id ELSE declaration.id \o "_1",
   name |-> declaration.name,
   columns |-> Flatten([i \in 1..Len(declaration.cols) |->
                          columnsOfProp(declaration.cols[i], sharedSchemas)]),
   indexes |-> <<>>,
   position |-> generateTablePosition(tableIndex, offset)]

\* parseTableFromAST(declaration, tableIndex, sharedSchemas); offset is the
\* random offset generateTablePosition draws
parseTableFromAST(declaration, tableIndex, sharedSchemas, offset) ==
  [id |-> declaration.id,
   name |-> declaration.name,
   columns |-> Flatten([i \in 1..Len(declaration.cols) |->
                          columnsOfProp(declaration.cols[i], sharedSchemas)]),
   indexes |-> <<>>,
   position |-> generateTablePosition(tableIndex, offset)]

\* parseEnumFromAST(declaration)
parseEnumFromAST(declaration) ==
  [name |-> declaration.id, values |-> declaration.values]

\* first pass, enums: every variable declaration initialised by a pgEnum call
EnumPass(ast) ==
  LET decls == SelectSeq(ast, LAMBDA it : it.kind = "enum")
  IN  [i \in 1..Len(decls) |-> parseEnumFromAST(decls[i])]

\* first pass, shared column groups: variables bound to an object literal
SharedPass(ast) ==
  LET decls == SelectSeq(ast, LAMBDA it : it.kind = "shared")
      last(g) == CHOOSE i \in 1..Len(decls) :
                   decls[i].id = g /\ \A j \in (i + 1)..Len(decls) : decls[j].id # g
  IN  [g \in {decls[i].id : i \in 1..Len(decls)} |->
         SelectSeq(decls[last(g)].cols, LAMBDA c : c.prop = "column")]

\* the guard of the second pass: an exported variable declaration whose
\* initialiser is a call of a table-constructor identifier or of <x>.table
TablePassRecognizes(it) ==
  /\ it.kind = "table"
  /\ it.exported
  /\ it.shape \in {"direct", "namespaced"}

\* second pass: tables in declaration order, each numbered by tables.length
TablePass(ast, sharedSchemas, offsets) ==
  LET decls == SelectSeq(ast, TablePassRecognizes)
  IN  [i \in 1..Len(decls) |->
         parseTableFromAST(decls[i], i - 1, sharedSchemas, offsets[i])]

\* the relationship of one property of the relations object, if any
relationOfEntry(sourceTableName, entry) ==
  IF /\ entry.kind = "one"
     /\ Len(entry.fields) > 0
     /\ Len(entry.references) > 0
  THEN <<[id |-> generateRelationshipId(sourceTableName, entry.fields[1].column, entry.target),
          source |-> sourceTableName,
          target |-> entry.target,
          sourceColumn |-> entry.fields[1].column,
          targetColumn |-> entry.references[1].column]>>
  ELSE <<>>

\* parseRelationsFromAST(declaration)
parseRelationsFromAST(declaration) ==
  Flatten([i \in 1..Len(declaration.entries) |->
             relationOfEntry(declaration.source, declaration.entries[i])])

\* third pass: relations(...) declarations
RelationsPass(ast) ==
  LET decls == SelectSeq(ast, LAMBDA it : it.kind = "relations")
  IN  Flatten([i \in 1..Len(decls) |-> parseRelationsFromAST(decls[i])])

\* parseIndexFromAST: the index a declaration adds to table tableId.  The
\* pass wants the initialiser to be a call of the identifier index or
\* uniqueIndex whose first argument is an <x>.on(...) call; in
\* index('n').on(t.c) the callee of the initialiser is the member .on
indexesFor(tableId, ast) ==
  LET decls == SelectSeq(ast, LAMBDA it :
                 it.kind = "index" /\ it.form = "wrapped" /\ it.table = tableId)
  IN  [i \in 1..Len(decls) |->
         [name |-> decls[i].id, columns |-> decls[i].columns, isUnique |-> decls[i].unique]]

\* fourth pass: indexes are appended to the table their first argument names
IndexPass(ast, tables) ==
  [i \in 1..Len(tables) |->
     [tables[i] EXCEPT !.indexes = @ \o indexesFor(tables[i].id, ast)]]

\* the relationships of the columns that carry references, table by table
relationshipsOfTable(table) ==
  LET cols == SelectSeq(table.columns, LAMBDA c : c.references # None)
  IN  [i \in 1..Len(cols) |->
         [id |-> generateRelationshipId(table.id, cols[i].name, cols[i].references[1].table),
          source |-> table.id,
          target |-> cols[i].references[1].table,
          sourceColumn |-> cols[i].name,
          targetColumn |-> cols[i].references[1].column]]

InlineReferences(tables) ==
  Flatten([i \in 1..Len(tables) |-> relationshipsOfTable(tables[i])])

\* the validation reporting the failure next to the empty Schema
ValidateParsed_DataOnFailure(tables, relationships, enums, message) ==
  IF Len(tables) = 0 /\ Len(enums) = 0
  THEN [Failure(message) EXCEPT
          !.data = Some([tables |-> tables, relationships |-> relationships, enums |-> enums])]
  ELSE Success(tables, relationships, enums)

\* the validation that ends both structural parsers
ValidateParsed(tables, relationships, enums, message) ==
  IF Len(tables) = 0 /\ Len(enums) = 0
  THEN Failure(message)
  ELSE Success(tables, relationships, enums)

\* the passes keeping one relationship per id
DrizzlePasses_Deduplicated(ast, offsets) ==
  LET enums == EnumPass(ast)
      sharedSchemas == SharedPass(ast)
      tables == IndexPass(ast, TablePass(ast, sharedSchemas, offsets))
      all == RelationsPass(ast) \o InlineReferences(tables)
      firsts == {i \in 1..Len(all) : \A j \in 1..(i - 1) : all[j].id # all[i].id}
      nth(k) == CHOOSE i \in firsts : Cardinality({j \in firsts : j < i}) = k - 1
      relationships == [k \in 1..Cardinality(firsts) |-> all[nth(k)]]
  IN  ValidateParsed(tables, relationships, enums,
                     "No valid Drizzle tables or enums found in the schema")

\* the passes of parseDrizzleSchema over the syntax tree (lines 76-212)
DrizzlePasses(ast, offsets) ==
  LET enums == EnumPass(ast)
      sharedSchemas == SharedPass(ast)
      tables == IndexPass(ast, TablePass(ast, sharedSchemas, offsets))
      relationships == RelationsPass(ast) \o InlineReferences(tables)
  IN  ValidateParsed(tables, relationships, enums,
                     "No valid Drizzle tables or enums found in the schema")

(***************************************************************************)
(* Fluent-dialect fallback parser                                          *)
(***************************************************************************)
\* enumRegex matches export const X = pgEnum('n', [ ... ]) with a non-empty list
EnumRegexMatches(it) == it.kind = "enum" /\ Len(it.values) > 0

\* tableRegex matches export const X = pgTable('n', { or the TableCreator form
TableRegexMatches(it) ==
  /\ it.kind = "table"
  /\ it.exported
  /\ it.shape \in {"direct", "curried"}

\* {([^}]+)} ends at the first closing brace: the body is cut inside the first
\* column that has an object-literal argument
HasObjectArg(prop) ==
  prop.prop = "column" /\ \E i \in 1..Len(prop.args) : prop.args[i].k = "obj"

BodyBeforeBrace(cols) ==
  LET cut == FirstIndex(cols, HasObjectArg)
  IN  IF cut = 0 THEN cols ELSE SubSeq(cols, 1, cut - 1)

\* columnRegex matches name: type(args)modifiers
ColumnRegexMatches(prop) == prop.prop = "column" /\ prop.root.call

fallbackColumn(prop) ==
  LET parsedModifiers == parseColumnModifiers(ModifierText(prop))
  IN  [name |-> prop.name,
       type |-> prop.root.name,
       isPrimaryKey |-> parsedModifiers.isPrimaryKey,
       isUnique |-> parsedModifiers.isUnique,
       isNotNull |-> parsedModifiers.isNotNull,
       references |-> extractReferences(ModifierText(prop)),
       defaultValue |-> None]

fallbackTable(it, index, offset) ==
  LET lines == SelectSeq(BodyBeforeBrace(it.cols), ColumnRegexMatches)
  IN  [id |-> it.id,
       name |-> it.name,
       columns |-> [i \in 1..Len(lines) |-> fallbackColumn(lines[i])],
       indexes |-> <<>>,
       position |-> generateTablePosition(index, offset)]

\* the body of the try block of parseDrizzleSchemaFallback
DrizzleFallbackScan(schemaCode, offsets) ==
  IF schemaCode.kind = "symbol"
  THEN Raised("Cannot convert a Symbol value to a string")
  ELSE LET text == IF IsText(schemaCode) THEN schemaCode.items ELSE <<>>
           enumDecls == SelectSeq(text, EnumRegexMatches)
           enums == [i \in 1..Len(enumDecls) |->
                       [name |-> enumDecls[i].id, values |-> enumDecls[i].values]]
           tableDecls == SelectSeq(text, TableRegexMatches)
           tables == [i \in 1..Len(tableDecls) |->
                        fallbackTable(tableDecls[i], i - 1, offsets[i])]
       IN  Value(Success(tables, InlineReferences(tables), enums))

\* the fallback without its try/catch: an exception of the scan leaves the function
parseDrizzleSchemaFallback_NoCatch(schemaCode, offsets) ==
  LET body == DrizzleFallbackScan(schemaCode, offsets)
  IN  IF body.threw THEN Escaped(body.message) ELSE body.value

\* the fallback applying the structural parser's validation to what it scanned
parseDrizzleSchemaFallback_Validated(schemaCode, offsets) ==
  LET body == DrizzleFallbackScan(schemaCode, offsets)
  IN  IF body.threw THEN Failure(body.message)
      ELSE IF Len(body.value.data[1].tables) = 0 /\ Len(body.value.data[1].enums) = 0
      THEN Failure("No valid Drizzle tables or enums found in the schema")
      ELSE body.value

\* parseDrizzleSchemaFallback(schemaCode)
parseDrizzleSchemaFallback(schemaCode, offsets) ==
  LET body == DrizzleFallbackScan(schemaCode, offsets)
  IN  IF body.threw THEN Failure(body.message) ELSE body.value

(***************************************************************************)
(* parseDrizzleSchema: every function below returns the ParseResult (or    *)
(* the escaped exception) together with what the call went through.        *)
(***************************************************************************)
Ran(r, t) == [result |-> r, tiers |-> t]

\* lines 61-74: syntax-tree construction; a syntax error hands the original
\* text to the fallback parser
DrizzleStructural(schemaCode, cleanedCode, offsets) ==
  IF ~AcornParses(cleanedCode)
  THEN Ran(parseDrizzleSchemaFallback(schemaCode, offsets),
           <<"structural", "raised", "fallback">>)
  ELSE Ran(DrizzlePasses(cleanedCode, offsets), <<"structural">>)

\* the try block without the check that the text looks like a Drizzle schema
DrizzleTryBody_NoSanityCheck(schemaCode, offsets) ==
  IF InvalidInput(schemaCode)
  THEN Ran(Failure("Invalid schema code provided"), <<>>)
  ELSE LET cleanedCode == CleanCode(schemaCode)
       IN  IF cleanedCode = <<>>
           THEN Ran(Failure("Schema code is empty after cleaning"), <<>>)
           ELSE DrizzleStructural(schemaCode, cleanedCode, offsets)

\* lines 32-212: the body of the outer try block
DrizzleTryBody(schemaCode, offsets) ==
  IF InvalidInput(schemaCode)
  THEN Ran(Failure("Invalid schema code provided"), <<>>)
  ELSE LET cleanedCode == CleanCode(schemaCode)
       IN  IF cleanedCode = <<>>
           THEN Ran(Failure("Schema code is empty after cleaning"), <<>>)
           ELSE IF ~LooksLikeDrizzle(cleanedCode)
           THEN Ran(Failure("No Drizzle table definitions found. Make sure you have pgTable(), mysqlTable(), or sqliteTable() calls."), <<>>)
           ELSE DrizzleStructural(schemaCode, cleanedCode, offsets)

\* the catch block reporting the exception itself instead of trying the fallback
CatchWithoutFallback(body, fallback) ==
  IF body.result.outcome # "throw" THEN body
  ELSE Ran(Failure(body.result.error[1]), Append(body.tiers, "raised"))

\* lines 213-224: an exception of the try block is answered by the fallback;
\* if that throws as well, by a failure with the first exception's message
CatchWithFallback(body, fallback) ==
  IF body.result.outcome # "throw" THEN body
  ELSE IF fallback.outcome # "throw"
       THEN Ran(fallback, body.tiers \o <<"raised", "fallback">>)
       ELSE Ran(Failure(body.result.error[1]), body.tiers \o <<"raised", "fallback">>)

\* parseDrizzleSchema(schemaCode)
parseDrizzleSchema(schemaCode, offsets) ==
  CatchWithFallback(DrizzleTryBody(schemaCode, offsets),
                    parseDrizzleSchemaFallback(schemaCode, offsets))

(***************************************************************************)
(* Block-dialect structural parser (src/unnamed/part_005)                  *)
(***************************************************************************)
PrismaTypes ==
  {"String", "Int", "BigInt", "Float", "Decimal", "Boolean", "DateTime", "Json", "Bytes"}

\* PRISMA_TYPE_MAPPING[type], defined for the types of PrismaTypes
PRISMA_TYPE_MAPPING(type) ==
  CASE type = "String" -> "text"
    [] type = "Int" -> "integer"
    [] type = "BigInt" -> "bigint"
    [] type = "Float" -> "double precision"
    [] type = "Decimal" -> "numeric"
    [] type = "Boolean" -> "boolean"
    [] type = "DateTime" -> "timestamp"
    [] type = "Json" -> "jsonb"
    [] type = "Bytes" -> "bytea"

\* String.prototype.toLowerCase on the identifiers the model uses
toLowerCase(str) ==
  CASE str = "User" -> "user"
    [] str = "Post" -> "post"
    [] str = "Role" -> "role"
    [] str = "Unsupported" -> "unsupported"
    [] str = "authorId" -> "authorid"
    [] str = "authorID" -> "authorid"
    [] str = "VarChar" -> "varchar"
    [] OTHER -> str

\* parseEnums: enum NAME { v1 v2 } blocks, values split on white space
parseEnums(cleanedCode) ==
  LET decls == SelectSeq(cleanedCode, LAMBDA it : it.kind = "penum" /\ Len(it.values) > 0)
  IN  [i \in 1..Len(decls) |-> [name |-> decls[i].name, values |-> decls[i].values]]

\* the text attrRegex captures between the parentheses of @name(...): it ends
\* at the first closing parenthesis, and parseAttributeArgs splits it at the
\* top-level commas.  An argument is a record [key, list, text]: key: [list]
\* for a named array, text otherwise; the text of a call f() is cut to "f(".
capturedArgs(attr) ==
  LET isCall(a) == a.key = "" /\ a.call
      cut == FirstIndex(attr.args, isCall)
      kept == IF cut = 0 THEN attr.args ELSE SubSeq(attr.args, 1, cut)
  IN  [i \in 1..Len(kept) |->
         [key |-> kept[i].key, list |-> kept[i].list,
          text |-> IF isCall(kept[i]) THEN kept[i].text \o "(" ELSE kept[i].text]]

\* attrRegex is @(\w+)(?:\(([^)]*)\))? : the parenthesis has to follow the
\* name at once, so of @db.VarChar(255) it matches @db and captures nothing
attributeArgs(attr) ==
  IF "member" \in DOMAIN attr THEN <<>> ELSE capturedArgs(attr)

\* parseField(line)
parseField(line) ==
  [name |-> line.name,
   type |-> line.type,
   isArray |-> line.isArray,
   isOptional |-> line.isOptional,
   attributes |-> [i \in 1..Len(line.attrs) |->
                     [name |-> line.attrs[i].name, args |-> attributeArgs(line.attrs[i])]]]

\* parseIndexAttribute keeping the first bracketed name only
parseIndexAttribute_FirstColumn(line) ==
  IF Len(line.columns) > 0
  THEN Some([columns |-> <<line.columns[1]>>, name |-> line.indexName])
  ELSE None

\* parseIndexAttribute(argsStr): the bracketed column list and the name: argument
parseIndexAttribute(line) ==
  IF Len(line.columns) > 0
  THEN Some([columns |-> line.columns, name |-> line.indexName])
  ELSE None

\* the indexes of a model body (lines 192-212); indexes.length names an unnamed one
RECURSIVE indexesOfLines(_, _, _)
indexesOfLines(modelName, lines, indexes) ==
  IF lines = <<>> THEN indexes
  ELSE LET line == Head(lines)
           indexData == parseIndexAttribute(line)
           suffix == CASE Len(indexes) = 0 -> "0" [] Len(indexes) = 1 -> "1"
                       [] Len(indexes) = 2 -> "2" [] OTHER -> "n"
       IN  IF line.line = "attr" /\ line.attr \in {"index", "unique"} /\ indexData # None
           THEN indexesOfLines(modelName, Tail(lines), Append(indexes,
                  [name |-> IF indexData[1].name # None THEN indexData[1].name[1]
                            ELSE modelName \o "_" \o line.attr \o "_" \o suffix,
                   columns |-> indexData[1].columns,
                   isUnique |-> line.attr = "unique"]))
           ELSE indexesOfLines(modelName, Tail(lines), indexes)

\* parseModels: model NAME { ... } blocks, line by line
parseModel(it) ==
  LET fieldLines == SelectSeq(it.lines, LAMBDA l : l.line = "field")
  IN  [name |-> it.name,
       fields |-> [i \in 1..Len(fieldLines) |-> parseField(fieldLines[i])],
       indexes |-> indexesOfLines(it.name, it.lines, <<>>)]

parseModels(cleanedCode) ==
  LET decls == SelectSeq(cleanedCode, LAMBDA it : it.kind = "model")
  IN  [i \in 1..Len(decls) |-> parseModel(decls[i])]

hasAttr(field, name) ==
  \E i \in 1..Len(field.attributes) : field.attributes[i].name = name

findAttr(field, name) ==
  LET i == FirstIndex(field.attributes, LAMBDA a : a.name = name)
  IN  IF i = 0 THEN None ELSE Some(field.attributes[i])

isEnumType(type, enums) == \E i \in 1..Len(enums) : enums[i].name = type

\* the default value convertFieldToColumn derives from @default(...)
prismaDefaultValue(defaultAttr) ==
  IF defaultAttr = None THEN None
  ELSE LET defaultArg == IF Len(defaultAttr[1].args) > 0 THEN defaultAttr[1].args[1].text ELSE ""
       IN  IF defaultArg \in {"uuid()", "cuid()"} THEN Some("gen_random_uuid()")
           ELSE IF defaultArg = "now()" THEN Some("now()")
           ELSE IF defaultArg = "autoincrement()" THEN Some("autoincrement")
           ELSE Some(defaultArg)

\* arg.includes('autoincrement') over the arguments of @default
mentionsAutoincrement(defaultAttr) ==
  /\ defaultAttr # None
  /\ \E i \in 1..Len(defaultAttr[1].args) :
       defaultAttr[1].args[i].text \in {"autoincrement(", "autoincrement()", "autoincrement"}

\* convertFieldToColumn(field, enums).  The native-type branch wants an
\* attribute db with arguments; @db.X(n) is read by attrRegex as the attribute
\* db followed by text it skips.
convertFieldToColumn(field, enums) ==
  LET mapped == IF field.type \in PrismaTypes THEN PRISMA_TYPE_MAPPING(field.type)
                ELSE toLowerCase(field.type)
      enumType == IF isEnumType(field.type, enums) THEN "enum(" \o field.type \o ")" ELSE mapped
      arrayType == IF field.isArray THEN enumType \o "[]" ELSE enumType
      defaultAttr == findAttr(field, "default")
      dbAttr == findAttr(field, "db")
      nativeType == IF dbAttr # None /\ Len(dbAttr[1].args) > 0
                    THEN toLowerCase(dbAttr[1].args[1].text) ELSE arrayType
      dbType == IF hasAttr(field, "id") /\ field.type = "Int" /\ mentionsAutoincrement(defaultAttr)
                THEN "serial" ELSE nativeType
  IN  [name |-> field.name,
       type |-> dbType,
       isPrimaryKey |-> hasAttr(field, "id"),
       isUnique |-> hasAttr(field, "unique"),
       isNotNull |-> ~field.isOptional,
       references |-> None,
       defaultValue |-> prismaDefaultValue(defaultAttr)]

\* the fields convertModelToTable keeps as columns
isColumnField(field, enums) ==
  LET isRelation == /\ field.type \notin PrismaTypes
                    /\ ~isEnumType(field.type, enums)
                    /\ field.type # "Unsupported"
  IN  ~(isRelation /\ ~hasAttr(field, "relation"))

\* convertModelToTable(model, index, enums)
convertModelToTable(model, index, enums, offset) ==
  LET kept == SelectSeq(model.fields, LAMBDA f : isColumnField(f, enums))
  IN  [id |-> model.name,
       name |-> model.name,
       columns |-> [i \in 1..Len(kept) |-> convertFieldToColumn(kept[i], enums)],
       indexes |-> model.indexes,
       position |-> generateTablePosition(index, offset)]

\* parseRelationAttribute(args): the fields and references arrays
parseRelationAttribute(args) ==
  LET lastOf(key) ==
        LET named == SelectSeq(args, LAMBDA a : a.key = key /\ Len(a.list) > 0)
        IN  IF named = <<>> THEN None ELSE Some(named[Len(named)].list)
  IN  [fields |-> lastOf("fields"), references |-> lastOf("references")]

\* the owning side pairing only the first elements of fields and references
explicitRelationships_FirstOnly(model, field, relationData) ==
  IF relationData.fields # None /\ relationData.references # None
  THEN <<[id |-> generateRelationshipId(model.name, relationData.fields[1][1], field.type),
          source |-> model.name,
          target |-> field.type,
          sourceColumn |-> relationData.fields[1][1],
          targetColumn |-> relationData.references[1][1]]>>
  ELSE <<>>

\* the owning side: one relationship for each index of fields
explicitRelationships(model, field, relationData) ==
  IF relationData.fields # None /\ relationData.references # None
  THEN LET fields == relationData.fields[1]
           references == relationData.references[1]
       IN  [i \in 1..Len(fields) |->
              [id |-> generateRelationshipId(model.name, fields[i], field.type),
               source |-> model.name,
               target |-> field.type,
               sourceColumn |-> fields[i],
               targetColumn |-> IF i <= Len(references) THEN references[i] ELSE references[1]]]
  ELSE <<>>

\* the implicit relation naming <field>Id whether the model has such a field or not
implicitRelationships_NoKeyLookup(model, field, targetModel) ==
  LET pk == FirstIndex(targetModel.fields, LAMBDA f : hasAttr(f, "id"))
  IN  IF pk # 0
      THEN <<[id |-> generateRelationshipId(model.name, field.name \o "Id", field.type),
              source |-> model.name,
              target |-> field.type,
              sourceColumn |-> field.name \o "Id",
              targetColumn |-> targetModel.fields[pk].name]>>
      ELSE <<>>

\* the implicit relation: a foreign-key field found by name and the target's @id field
implicitRelationships(model, field, targetModel) ==
  LET isFk(f) == \/ f.name = field.name \o "Id"
                 \/ f.name = field.name \o "_id"
                 \/ toLowerCase(f.name) = toLowerCase(field.name) \o "id"
      fk == FirstIndex(model.fields, isFk)
      pk == FirstIndex(targetModel.fields, LAMBDA f : hasAttr(f, "id"))
  IN  IF fk # 0 /\ pk # 0
      THEN <<[id |-> generateRelationshipId(model.name, model.fields[fk].name, field.type),
              source |-> model.name,
              target |-> field.type,
              sourceColumn |-> model.fields[fk].name,
              targetColumn |-> targetModel.fields[pk].name]>>
      ELSE <<>>

relationshipsOfField(model, field, allModels) ==
  LET relationAttr == findAttr(field, "relation")
      target == FirstIndex(allModels, LAMBDA m : m.name = field.type)
  IN  IF target = 0 THEN <<>>
      ELSE IF relationAttr # None /\ Len(relationAttr[1].args) > 0
      THEN explicitRelationships(model, field, parseRelationAttribute(relationAttr[1].args))
      ELSE IF ~field.isArray
      THEN implicitRelationships(model, field, allModels[target])
      ELSE <<>>

\* extractRelationships(model, allModels)
extractRelationships(model, allModels) ==
  Flatten([i \in 1..Len(model.fields) |->
             relationshipsOfField(model, model.fields[i], allModels)])

\* lines 93-133 of parsePrismaSchema.  enums.push(...parsedEnums) passes every
\* enum as an argument of one call; text that declares more enums than the
\* engine takes as arguments raises a RangeError there.
PrismaPasses(schemaCode, cleanedCode, offsets) ==
  IF schemaCode.oversize
  THEN Escaped("Maximum call stack size exceeded")
  ELSE LET enums == parseEnums(cleanedCode)
           models == parseModels(cleanedCode)
           tables == [i \in 1..Len(models) |->
                        convertModelToTable(models[i], i - 1, enums, offsets[i])]
           relationships == Flatten([i \in 1..Len(models) |->
                                       extractRelationships(models[i], models)])
       IN  ValidateParsed(tables, relationships, enums,
                          "No valid Prisma models or enums found in the schema")

(***************************************************************************)
(* Block-dialect fallback parser                                           *)
(***************************************************************************)
\* the column of a field line whose type is in the type dictionary
prismaFallbackColumn(line) ==
  [name |-> line.name,
   type |-> PRISMA_TYPE_MAPPING(line.type),
   isPrimaryKey |-> \E i \in 1..Len(line.attrs) : line.attrs[i].name = "id",
   isUnique |-> \E i \in 1..Len(line.attrs) : line.attrs[i].name = "unique",
   isNotNull |-> ~line.isOptional,
   references |-> None,
   defaultValue |-> None]

prismaFallbackColumns(it) ==
  LET lines == SelectSeq(it.lines, LAMBDA l : l.line = "field" /\ l.type \in PrismaTypes)
  IN  [i \in 1..Len(lines) |-> prismaFallbackColumn(lines[i])]

\* the body of the try block of parsePrismaSchemaFallback
PrismaFallbackScan(schemaCode, offsets) ==
  IF schemaCode.kind = "symbol"
  THEN Raised("Cannot convert a Symbol value to a string")
  ELSE LET text == IF IsText(schemaCode) THEN schemaCode.items ELSE <<>>
           enumDecls == SelectSeq(text, LAMBDA it : it.kind = "penum" /\ Len(it.values) > 0)
           enums == [i \in 1..Len(enumDecls) |->
                       [name |-> enumDecls[i].name, values |-> enumDecls[i].values]]
           modelDecls == SelectSeq(text, LAMBDA it :
                           it.kind = "model" /\ Len(prismaFallbackColumns(it)) > 0)
           tables == [i \in 1..Len(modelDecls) |->
                        [id |-> modelDecls[i].name,
                         name |-> modelDecls[i].name,
                         columns |-> prismaFallbackColumns(modelDecls[i]),
                         indexes |-> <<>>,
                         position |-> generateTablePosition(i - 1, offsets[i])]]
       IN  Value(Success(tables, <<>>, enums))

\* parsePrismaSchemaFallback(schemaCode)
parsePrismaSchemaFallback(schemaCode, offsets) ==
  LET body == PrismaFallbackScan(schemaCode, offsets)
  IN  IF body.threw THEN Failure(body.message) ELSE body.value

\* lines 64-133: the body of the try block of parsePrismaSchema
PrismaTryBody(schemaCode, offsets) ==
  IF InvalidInput(schemaCode)
  THEN Ran(Failure("Invalid schema code provided"), <<>>)
  ELSE LET cleanedCode == CleanCode(schemaCode)
       IN  IF cleanedCode = <<>>
           THEN Ran(Failure("Schema code is empty after cleaning"), <<>>)
           ELSE IF ~LooksLikePrisma(cleanedCode)
           THEN Ran(Failure("No Prisma models or enums found. Make sure you have model definitions."), <<>>)
           ELSE Ran(PrismaPasses(schemaCode, cleanedCode, offsets), <<"structural">>)

\* parsePrismaSchema(schemaCode)
parsePrismaSchema(schemaCode, offsets) ==
  CatchWithFallback(PrismaTryBody(schemaCode, offsets),
                    parsePrismaSchemaFallback(schemaCode, offsets))

(***************************************************************************)
(* The inputs the parsers are called with                                  *)
(***************************************************************************)
Mod(n) == [name |-> n, target |-> None]
Ref(t, c) == [name |-> "references", target |-> Some([table |-> t, column |-> c])]

Col(name, base, dbName, mods) ==
  [prop |-> "column", name |-> name, root |-> [call |-> TRUE, name |-> base],
   args |-> <<[k |-> "str", v |-> dbName]>>, mods |-> mods]

\* id: serial('id').primaryKey()
ColId == Col("id", "serial", "id", <<Mod("primaryKey")>>)
\* email: varchar('email').unique()
ColEmail == Col("email", "varchar", "email", <<Mod("unique")>>)
\* authorId: integer('author_id').notNull().references(() => t.id)
ColAuthor(t) == Col("authorId", "integer", "author_id", <<Mod("notNull"), Ref(t, "id")>>)

TableIds == {"users", "posts"}
Shapes == {"direct", "curried", "namespaced"}
DbName(id) == IF id = "posts" THEN "blog_posts" ELSE id

UserCols == <<ColId, ColEmail>>
PostCols == <<ColId, ColAuthor("users")>>

\* createdAt: createdAtColumn      (the value is an identifier, not a call)
ColPlain ==
  [prop |-> "column", name |-> "createdAt", root |-> [call |-> FALSE, name |-> "createdAtColumn"],
   args |-> <<>>, mods |-> <<>>]
\* createdAt: timestamp('created_at').defaultNow()
ColCreatedAt == Col("createdAt", "timestamp", "created_at", <<Mod("defaultNow")>>)
\* ...auditSchema
Spread(group) == [prop |-> "spread", group |-> group]

TableItem(id, shape, exported, cols, commented) ==
  [kind |-> "table", id |-> id, name |-> DbName(id), shape |-> shape,
   exported |-> exported, cols |-> cols, commented |-> commented]

\* export const role = pgEnum('role', ['admin', 'user']);
EnumItem == [kind |-> "enum", id |-> "role", values |-> <<"admin", "user">>, commented |-> FALSE]

\* export const postsRelations = relations(posts, ({ one, many }) => ({
\*   author: one(users, { fields: [posts.authorId], references: [users.id] }),
\*   readers: many(users) }));
RelationsItem ==
  [kind |-> "relations", source |-> "posts", commented |-> FALSE,
   entries |-> <<[kind |-> "one", target |-> "users",
                  fields |-> <<[table |-> "posts", column |-> "authorId"]>>,
                  references |-> <<[table |-> "users", column |-> "id"]>>],
                 [kind |-> "many", target |-> "users", fields |-> <<>>, references |-> <<>>]>>]

\* export const postsRelations = relations(posts, ({ one }) => ({
\*   author: one(users, { fields: [posts.authorId, posts.id],
\*                        references: [users.id] }) }));
RelationsItemComposite ==
  [kind |-> "relations", source |-> "posts", commented |-> FALSE,
   entries |-> <<[kind |-> "one", target |-> "users",
                  fields |-> <<[table |-> "posts", column |-> "authorId"],
                               [table |-> "posts", column |-> "id"]>>,
                  references |-> <<[table |-> "users", column |-> "id"]>>]>>]

\* const auditSchema = { id: serial('id').primaryKey(),
\*                       createdAt: timestamp('created_at').defaultNow() };
SharedItem ==
  [kind |-> "shared", id |-> "auditSchema", cols |-> <<ColId, ColCreatedAt>>,
   commented |-> FALSE]

\* chained:  export const ID = index('ID').on(TABLE.c1, ...);
\* wrapped:  export const ID = index(TABLE.c1.on(TABLE.c1, ...));
IndexItem(id, form, table, columns, unique) ==
  [kind |-> "index", id |-> id, form |-> form, table |-> table, columns |-> columns,
   unique |-> unique, commented |-> FALSE]

ImportItem == [kind |-> "import", commented |-> FALSE]
GarbageItem == [kind |-> "garbage", commented |-> FALSE]

FluentItems ==
  {TableItem(id, shape, TRUE, cols, FALSE) :
     id \in TableIds, shape \in Shapes, cols \in {UserCols, PostCols}}
  \cup {TableItem("users", "direct", FALSE, UserCols, FALSE),
        TableItem("users", "direct", TRUE, UserCols, TRUE),
        TableItem("posts", "direct", TRUE, PostCols, TRUE),
        EnumItem, RelationsItem, ImportItem, GarbageItem}
  \cup {TableItem("users", "direct", TRUE, <<ColId, ColPlain>>, FALSE),
        TableItem("users", "direct", TRUE, <<ColId, Spread("auditSchema")>>, FALSE),
        SharedItem, RelationsItemComposite,
        IndexItem("usersEmailIdx", "chained", "users", <<"email">>, FALSE),
        IndexItem("postsAuthorIdx", "chained", "posts", <<"authorId", "id">>, TRUE),
        IndexItem("usersEmailIdx", "wrapped", "users", <<"email">>, TRUE)}

Attr(name) == [name |-> name, args |-> <<>>]
Field(name, type, isArray, isOptional, attrs) ==
  [line |-> "field", name |-> name, type |-> type, isArray |-> isArray,
   isOptional |-> isOptional, attrs |-> attrs]

\* id String @id
FId == Field("id", "String", FALSE, FALSE, <<Attr("id")>>)
\* id Int @id @default(autoincrement())
FSerial == Field("id", "Int", FALSE, FALSE,
             <<Attr("id"),
               [name |-> "default",
                args |-> <<[key |-> "", list |-> <<>>, text |-> "autoincrement", call |-> TRUE]>>]>>)
\* id String @id @default(uuid())
FUuid == Field("id", "String", FALSE, FALSE,
           <<Attr("id"),
             [name |-> "default",
              args |-> <<[key |-> "", list |-> <<>>, text |-> "uuid", call |-> TRUE]>>]>>)
\* title String @db.VarChar(255)
FTitleVarChar ==
  Field("title", "String", FALSE, FALSE,
    <<[name |-> "db", member |-> "VarChar",
       args |-> <<[key |-> "", list |-> <<>>, text |-> "255", call |-> FALSE]>>]>>)
\* email String? @unique
FEmail == Field("email", "String", FALSE, TRUE, <<Attr("unique")>>)
\* authorId String
FAuthorId == Field("authorId", "String", FALSE, FALSE, <<>>)
\* author User @relation(fields: [authorId], references: [id])
FAuthorExplicit ==
  Field("author", "User", FALSE, FALSE,
    <<[name |-> "relation",
       args |-> <<[key |-> "fields", list |-> <<"authorId">>, text |-> "", call |-> FALSE],
                  [key |-> "references", list |-> <<"id">>, text |-> "", call |-> FALSE]>>]>>)
\* author User @relation(fields: [authorId, title], references: [id])
FAuthorComposite ==
  Field("author", "User", FALSE, FALSE,
    <<[name |-> "relation",
       args |-> <<[key |-> "fields", list |-> <<"authorId", "title">>, text |-> "", call |-> FALSE],
                  [key |-> "references", list |-> <<"id">>, text |-> "", call |-> FALSE]>>]>>)
\* author User
FAuthorImplicit == Field("author", "User", FALSE, FALSE, <<>>)
\* posts Post[]
FPosts == Field("posts", "Post", TRUE, FALSE, <<>>)
\* @@index([email])
LEmailIndex == [line |-> "attr", attr |-> "index", columns |-> <<"email">>, indexName |-> None]
\* @@unique([authorId, title])
LUniqueIndex ==
  [line |-> "attr", attr |-> "unique", columns |-> <<"authorId", "title">>, indexName |-> None]

ModelItem(name, lines, commented) ==
  [kind |-> "model", name |-> name, lines |-> lines, commented |-> commented]

\* enum Role { USER ADMIN }
PrismaEnumItem == [kind |-> "penum", name |-> "Role", values |-> <<"USER", "ADMIN">>, commented |-> FALSE]
DatasourceItem == [kind |-> "datasource", commented |-> FALSE]

PrismaItems ==
  {ModelItem("User", <<FId, FEmail>>, FALSE),
   ModelItem("User", <<FId, FPosts, LEmailIndex>>, FALSE),
   ModelItem("User", <<FId, FEmail>>, TRUE),
   ModelItem("Post", <<FSerial, FAuthorId, FAuthorExplicit>>, FALSE),
   ModelItem("Post", <<FId, FAuthorId, FAuthorImplicit>>, FALSE),
   ModelItem("Post", <<FAuthorImplicit>>, FALSE),
   ModelItem("Post", <<FId, FAuthorId, FAuthorComposite, LUniqueIndex>>, FALSE),
   ModelItem("Post", <<FUuid, FTitleVarChar>>, FALSE),
   PrismaEnumItem, DatasourceItem}

Text(items, oversize) == [kind |-> "text", items |-> items, oversize |-> oversize]

\* text that declares more enums than one call takes arguments also declares one
MayBeOversize(items) ==
  \E i \in 1..Len(items) : items[i].kind = "penum" /\ ~items[i].commented

\* null (or any other value that is not a string and converts to one), a
\* Symbol (which does not convert), the empty string and texts of both dialects
Inputs ==
  {[kind |-> "null"], [kind |-> "symbol"]}
  \cup {Text(items, FALSE) : items \in SeqOfSeqs(FluentItems, MaxItems)}
  \cup {Text(items, FALSE) : items \in SeqOfSeqs(PrismaItems, MaxItems) \ {<<>>}}
  \cup {Text(items, TRUE) : items \in {s \in SeqOfSeqs(PrismaItems, MaxItems) : MayBeOversize(s)}}

\* how many generateTablePosition calls a parse of the input can make at most
PositionCalls(schemaCode) ==
  IF IsText(schemaCode)
  THEN Len(SelectSeq(schemaCode.items, LAMBDA it : it.kind \in {"table", "model"}))
  ELSE 0

(***************************************************************************)
(* DrizzleFlowApp: the schema text, its editor and its copy in             *)
(* localStorage.  React renders, then runs the effects of the render in    *)
(* order (those of the child InputPanel first); a state setter called from *)
(* an effect or an event handler requests an update, and the next render   *)
(* applies the updates requested since the last one.  Effects of a render  *)
(* run before the next event is handled.  The effects and storage keys of  *)
(* ormType and panelState do not touch the schema and are left out.        *)
(***************************************************************************)
\* the texts the editor and the storage hold
SchemaTexts == {"", "a", "b"}

Effect(fx, value) == [fx |-> fx, value |-> value]
Update(target, value) == [target |-> target, value |-> value]

\* the effects of the first render persisting before loading
MountEffects_PersistFirst ==
  <<Effect("sync", ""), Effect("persist", ""), Effect("load", "")>>

\* the effects of the first render: InputPanel's sync effect, then the
\* load effect and the persist effect of DrizzleFlowApp, all closed over the
\* initial state ''
MountEffects ==
  <<Effect("sync", ""), Effect("load", ""), Effect("persist", "")>>

\* the effects whose dependency [schema] changed in a render
EffectsOfRender(before, after) ==
  IF after # before
  THEN <<Effect("sync", after), Effect("persist", after)>>
  ELSE <<>>

\* the value a state has after the updates requested for it
Reduce(target, current) ==
  LET mine == SelectSeq(updates, LAMBDA u : u.target = target)
  IN  IF mine = <<>> THEN current ELSE mine[Len(mine)].value

\* before the component is mounted, with what an earlier visit left in storage
AppInit ==
  /\ mounted = FALSE
  /\ schema = ""
  /\ localSchema = ""
  /\ updates = <<>>
  /\ effects = <<>>
  /\ storage \in {None} \cup {Some(text) : text \in SchemaTexts}
  /\ saved = storage
  /\ edits = 0
  /\ rejected = FALSE

\* the first render of DrizzleFlowApp and InputPanel
Mount ==
  /\ ~mounted
  /\ mounted' = TRUE
  /\ effects' = MountEffects
  /\ UNCHANGED <<schema, localSchema, updates, storage, saved, edits, rejected>>
  /\ UNCHANGED <<parserVars, loopVars, panelVars>>

\* InputPanel lines 30-32: setLocalSchema(schema)
RunSyncEffect ==
  /\ effects # <<>>
  /\ Head(effects).fx = "sync"
  /\ updates' = Append(updates, Update("localSchema", Head(effects).value))
  /\ effects' = Tail(effects)
  /\ UNCHANGED <<mounted, schema, localSchema, storage, saved, edits, rejected>>
  /\ UNCHANGED <<parserVars, loopVars, panelVars>>

\* DrizzleFlowApp lines 33-48: if (savedSchema) setSchema(savedSchema); an
\* exception of getItem is caught and ignored
RunLoadEffect ==
  /\ effects # <<>>
  /\ Head(effects).fx = "load"
  /\ \E ok \in BOOLEAN :
       /\ updates' = IF ok /\ storage # None /\ storage[1] # ""
                     THEN Append(updates, Update("schema", storage[1]))
                     ELSE updates
       /\ rejected' = (rejected \/ ~ok)
  /\ effects' = Tail(effects)
  /\ UNCHANGED <<mounted, schema, localSchema, storage, saved, edits>>
  /\ UNCHANGED <<parserVars, loopVars, panelVars>>

\* DrizzleFlowApp lines 51-55: localStorage.setItem(SCHEMA_STORAGE_KEY, schema);
\* an exception of setItem is caught and ignored
RunPersistEffect ==
  /\ effects # <<>>
  /\ Head(effects).fx = "persist"
  /\ \E ok \in BOOLEAN :
       /\ storage' = IF ok THEN Some(Head(effects).value) ELSE storage
       /\ rejected' = (rejected \/ ~ok)
  /\ effects' = Tail(effects)
  /\ UNCHANGED <<mounted, schema, localSchema, updates, saved, edits>>
  /\ UNCHANGED <<parserVars, loopVars, panelVars>>

\* React renders with the updates requested and schedules the effects whose
\* dependencies changed
Render ==
  /\ mounted
  /\ effects = <<>>
  /\ updates # <<>>
  /\ schema' = Reduce("schema", schema)
  /\ localSchema' = Reduce("localSchema", localSchema)
  /\ updates' = <<>>
  /\ effects' = EffectsOfRender(schema, Reduce("schema", schema))
  /\ UNCHANGED <<mounted, storage, saved, edits, rejected>>
  /\ UNCHANGED <<parserVars, loopVars, panelVars>>

\* InputPanel lines 34-37 and DrizzleFlowApp lines 93-95: the user changes
\* the text; setLocalSchema(value) and, through onSchemaChange, setSchema(value)
HandleSchemaChange ==
  /\ mounted
  /\ effects = <<>>
  /\ edits < MaxEdits
  /\ \E value \in SchemaTexts :
       updates' = updates \o <<Update("localSchema", value), Update("schema", value)>>
  /\ edits' = edits + 1
  /\ UNCHANGED <<mounted, schema, localSchema, effects, storage, saved, rejected>>
  /\ UNCHANGED <<parserVars, loopVars, panelVars>>

AppNext ==
  \/ Mount
  \/ RunSyncEffect
  \/ RunLoadEffect
  \/ RunPersistEffect
  \/ Render
  \/ HandleSchemaChange

\* !schema.trim() for the text of a parser input: nothing but white space
IsBlank(schemaCode) == schemaCode.items = <<>>

\* parseResult, lines 72-75: null for a blank schema, else what the parser of
\* the selected ORM type returned
parseResultOf(schemaCode, returned) ==
  IF IsBlank(schemaCode) THEN None ELSE Some(returned)

\* stats reporting a failed parse as INVALID
stats_InvalidOnFailure(parseResult) ==
  IF parseResult = None
  THEN [tableCount |-> 0, relationshipCount |-> 0, validationStatus |-> "pending"]
  ELSE IF ~parseResult[1].success \/ parseResult[1].data = None
  THEN [tableCount |-> 0, relationshipCount |-> 0, validationStatus |-> "invalid"]
  ELSE [tableCount |-> Len(parseResult[1].data[1].tables),
        relationshipCount |-> Len(parseResult[1].data[1].relationships),
        validationStatus |-> "valid"]

\* stats, lines 77-91
stats(parseResult) ==
  IF parseResult = None \/ ~parseResult[1].success \/ parseResult[1].data = None
  THEN [tableCount |-> 0, relationshipCount |-> 0, validationStatus |-> "pending"]
  ELSE [tableCount |-> Len(parseResult[1].data[1].tables),
        relationshipCount |-> Len(parseResult[1].data[1].relationships),
        validationStatus |-> IF parseResult[1].success THEN "valid" ELSE "invalid"]

\* MetricsBar returns null when there is nothing to show
MetricsBarRenders(shown) ==
  ~(shown.tableCount = 0 /\ shown.relationshipCount = 0 /\ shown.validationStatus = "pending")

(***************************************************************************)
(* The loops of the parsers, step by step: the exec loop of a global       *)
(* regular expression (attrRegex of parseField; the other global           *)
(* expressions, enumRegex, tableRegex, columnRegex and modelRegex, are     *)
(* iterated the same way and begin with text they have to consume), the    *)
(* character scanner of parseAttributeArgs, the two loops that unwind a    *)
(* chain of method calls, and walkAST.                                     *)
(***************************************************************************)
Chars == {"@", "a", "(", ")", ","}
Strings == SeqOfSeqs(Chars, MaxLen)

Least(S) == CHOOSE x \in S : \A y \in S : x <= y

\* \w over Chars
IsWordChar(c) == c = "a"

\* attrRegex = /@(\w+)(?:\(([^)]*)\))?/g : the index (from 1) of the last
\* character of the match that starts at index p, 0 if none starts there
attrRegexMatchEnd(str, p) ==
  IF ~(p < Len(str) /\ str[p] = "@" /\ IsWordChar(str[p + 1])) THEN 0
  ELSE LET nameEnd == Least({e \in (p + 1)..Len(str) :
                               e = Len(str) \/ ~IsWordChar(str[e + 1])})
           closes == {q \in (nameEnd + 2)..Len(str) : str[q] = ")"}
       IN  IF nameEnd < Len(str) /\ str[nameEnd + 1] = "(" /\ closes # {}
           THEN Least(closes)
           ELSE nameEnd

\* exec of an expression whose name group is (\w*) and whose @ is optional:
\* it matches the empty string where it stands and leaves lastIndex alone
attrRegexExec_EmptyMatch(str, lastIndex) ==
  IF lastIndex <= Len(str)
  THEN [match |-> Some([index |-> lastIndex, end |-> lastIndex]), lastIndex |-> lastIndex]
  ELSE [match |-> None, lastIndex |-> 0]

\* attrRegex.exec(str) with attrRegex.lastIndex = lastIndex: the leftmost
\* match at or after lastIndex, null (and lastIndex 0) if there is none
attrRegexExec(str, lastIndex) ==
  LET starts == {p \in (lastIndex + 1)..Len(str) : attrRegexMatchEnd(str, p) # 0}
  IN  IF starts = {}
      THEN [match |-> None, lastIndex |-> 0]
      ELSE [match |-> Some([index |-> Least(starts) - 1,
                            end |-> attrRegexMatchEnd(str, Least(starts))]),
            lastIndex |-> attrRegexMatchEnd(str, Least(starts))]

\* a column expression, outermost call first: calls of a method (the callee
\* is <object>.name), calls of a computed member (<object>[k]), and at the
\* bottom a call of an identifier or something that is no call
Layer(kind, name, arity) == [kind |-> kind, name |-> name, arity |-> arity]
Layers ==
  {Layer("method", "notNull", 0), Layer("method", "references", 1),
   Layer("method", "references", 0), Layer("computed", "", 0)}
Leaves == {Layer("call", "integer", 1), Layer("identifier", "createdAtColumn", 0)}
Exprs == {Append(chain, leaf) : chain \in SeqOfSeqs(Layers, MaxLen - 1), leaf \in Leaves}

isCallExpression(layer) == layer.kind \in {"method", "computed", "call"}
isMemberCallee(layer) == layer.kind \in {"method", "computed"}

\* a syntax tree: node 1 is the root, tree[i] is the parent of node i
Trees ==
  {tree \in SeqOfSeqs(0..(MaxLen - 1), MaxLen) :
     /\ Len(tree) >= 1
     /\ tree[1] = 0
     /\ \A i \in 2..Len(tree) : tree[i] \in 1..(i - 1)}

\* the child nodes of node n in the order of the keys of n
Children(tree, n) ==
  SelectSeq([i \in 1..Len(tree) |-> i], LAMBDA i : tree[i] = n)

LoopInit ==
  /\ loop = "idle"
  /\ chars = <<>>
  /\ position = 0
  /\ expr = <<>>
  /\ unwound = <<>>
  /\ syntaxTree = <<>>
  /\ pending = <<>>
  /\ seen = <<>>

Return ==
  /\ loop' = "returned"
  /\ UNCHANGED <<chars, position, expr, unwound, syntaxTree, pending, seen>>

\* parseField lines 257-266 are entered with the chars behind the field's type
StartExec ==
  /\ loop = "idle"
  /\ loop' = "exec"
  /\ chars' \in Strings
  /\ UNCHANGED <<position, expr, unwound, syntaxTree, pending, seen>>
  /\ UNCHANGED <<parserVars, appVars, panelVars>>

\* one test of while ((attrMatch = attrRegex.exec(attributesStr)) !== null)
\* and the body that follows it; position is attrRegex.lastIndex
ExecStep ==
  /\ loop = "exec"
  /\ LET found == attrRegexExec(chars, position)
     IN  /\ position' = found.lastIndex
         /\ seen' = IF found.match = None THEN seen ELSE Append(seen, found.match[1].index)
         /\ loop' = IF found.match = None THEN "returned" ELSE "exec"
  /\ UNCHANGED <<chars, expr, unwound, syntaxTree, pending>>
  /\ UNCHANGED <<parserVars, appVars, panelVars>>

\* parseAttributeArgs lines 292-325 are entered with the captured arguments
StartScan ==
  /\ loop = "idle"
  /\ loop' = "scan"
  /\ chars' \in Strings
  /\ UNCHANGED <<position, expr, unwound, syntaxTree, pending, seen>>
  /\ UNCHANGED <<parserVars, appVars, panelVars>>

\* one test of i < argsStr.length and, if it holds, the body for character
\* i and i++ (every branch of the body, continue included, reaches i++)
ScanStep ==
  /\ loop = "scan"
  /\ IF position < Len(chars)
     THEN /\ seen' = Append(seen, position)
          /\ position' = position + 1
          /\ UNCHANGED <<loop, chars, expr, unwound, syntaxTree, pending>>
     ELSE Return
  /\ UNCHANGED <<parserVars, appVars, panelVars>>

\* parseColumnFromAST lines 462-471 and parseReferencesFromAST lines 578-611
\* are entered with currentExpr at the outermost layer
StartUnwind ==
  /\ loop = "idle"
  /\ loop' \in {"unwindColumn", "unwindReferences"}
  /\ expr' \in Exprs
  /\ position' = 1
  /\ UNCHANGED <<chars, unwound, syntaxTree, pending, seen>>
  /\ UNCHANGED <<parserVars, appVars, panelVars>>

\* one test of while (isCallExpression(currentExpr)) in parseColumnFromAST
\* and the body: chainedCalls.unshift(name), currentExpr = callee.object
UnwindColumnStep ==
  /\ loop = "unwindColumn"
  /\ IF isCallExpression(expr[position]) /\ expr[position].kind = "method"
     THEN /\ unwound' = <<expr[position].name>> \o unwound
          /\ position' = position + 1
          /\ UNCHANGED <<loop, chars, expr, syntaxTree, pending, seen>>
     ELSE Return
  /\ UNCHANGED <<parserVars, appVars, panelVars>>

\* the same for parseReferencesFromAST: it leaves at the first references
\* call with an argument, and descends through any member callee
UnwindReferencesStep ==
  /\ loop = "unwindReferences"
  /\ IF /\ isCallExpression(expr[position])
        /\ ~(/\ expr[position].kind = "method"
             /\ expr[position].name = "references"
             /\ expr[position].arity > 0)
        /\ isMemberCallee(expr[position])
     THEN /\ position' = position + 1
          /\ UNCHANGED <<loop, chars, expr, unwound, syntaxTree, pending, seen>>
     ELSE Return
  /\ UNCHANGED <<parserVars, appVars, panelVars>>

\* walkAST lines 368-385 is called with the root of the tree
StartWalk ==
  /\ loop = "idle"
  /\ loop' = "walk"
  /\ syntaxTree' \in Trees
  /\ pending' = <<1>>
  /\ UNCHANGED <<chars, position, expr, unwound, seen>>
  /\ UNCHANGED <<parserVars, appVars, panelVars>>

\* one call walkAST(node, callback): the callback on the node, then a call
\* for each child, in order, before the calls that were pending
WalkStep ==
  /\ loop = "walk"
  /\ IF pending # <<>>
     THEN /\ seen' = Append(seen, Head(pending))
          /\ pending' = Children(syntaxTree, Head(pending)) \o Tail(pending)
          /\ UNCHANGED <<loop, chars, position, expr, unwound, syntaxTree>>
     ELSE Return
  /\ UNCHANGED <<parserVars, appVars, panelVars>>

LoopNext ==
  \/ StartExec
  \/ ExecStep
  \/ StartScan
  \/ ScanStep
  \/ StartUnwind
  \/ UnwindColumnStep
  \/ UnwindReferencesStep
  \/ StartWalk
  \/ WalkStep

(***************************************************************************)
(* handlePanelStateChange of DrizzleFlowApp                                *)
(***************************************************************************)
\* panelRef.current: the desktop ResizablePanel is rendered in every
\* layout (CSS hides it on small screens), so the ref is set once mounted
PanelRefAttached == TRUE

\* the times, in milliseconds, that pass between two events
Gaps == {50, 100}

Timer(delay, callback) == [left |-> delay, callback |-> callback]

PanelInit ==
  /\ panelState = "expanded"
  /\ isAnimating = FALSE
  /\ panelSize = 35
  /\ timers = <<>>
  /\ requested = None
  /\ requests = 0

\* handlePanelStateChange(newState), lines 97-120, called by the two mobile
\* toggle buttons, by the hide button of InputPanel, by showPanel and by
\* onCollapse of the panel
HandlePanelStateChange ==
  /\ requests < MaxRequests
  /\ \E newState \in {"hidden", "expanded"} :
       /\ requested' = Some(newState)
       /\ IF newState = "hidden" /\ PanelRefAttached
          THEN /\ isAnimating' = TRUE
               /\ panelSize' = 0
               /\ timers' = Append(timers, Timer(200, "hide"))
               /\ UNCHANGED panelState
          ELSE IF newState = "expanded"
          THEN /\ isAnimating' = TRUE
               /\ panelState' = "expanded"
               /\ timers' = Append(timers, Timer(100, "expand"))
               /\ UNCHANGED panelSize
          ELSE /\ isAnimating' = FALSE
               /\ panelState' = newState
               /\ UNCHANGED <<panelSize, timers>>
  /\ requests' = requests + 1
  /\ UNCHANGED <<parserVars, appVars, loopVars>>

\* time passes, no further than the next timer is due
Elapse ==
  /\ timers # <<>>
  /\ \E gap \in Gaps :
       /\ \A k \in 1..Len(timers) : timers[k].left >= gap
       /\ timers' = [k \in 1..Len(timers) |-> [timers[k] EXCEPT !.left = @ - gap]]
  /\ UNCHANGED <<panelState, isAnimating, panelSize, requested, requests>>
  /\ UNCHANGED <<parserVars, appVars, loopVars>>

\* the callback of the timer that is due and was set first runs: lines
\* 103-106 for a hide request, lines 110-115 for an expand request
RunTimeout ==
  /\ \E k \in 1..Len(timers) :
       /\ timers[k].left = 0
       /\ \A j \in 1..(k - 1) : timers[j].left # 0
       /\ timers' = SubSeq(timers, 1, k - 1) \o SubSeq(timers, k + 1, Len(timers))
       /\ IF timers[k].callback = "hide"
          THEN /\ panelState' = "hidden"
               /\ UNCHANGED panelSize
          ELSE /\ panelSize' = IF PanelRefAttached THEN 35 ELSE panelSize
               /\ UNCHANGED panelState
  /\ isAnimating' = FALSE
  /\ UNCHANGED <<requested, requests>>
  /\ UNCHANGED <<parserVars, appVars, loopVars>>

PanelNext ==
  \/ HandlePanelStateChange
  \/ Elapse
  \/ RunTimeout

(***************************************************************************)
(* The state machine: one call of one of the four exported parsers         *)
(***************************************************************************)
Init ==
  /\ input \in Inputs
  /\ call = "none"
  /\ result = NoResult
  /\ tiers = <<>>
  /\ AppInit
  /\ storage = None
  /\ LoopInit
  /\ PanelInit

Returns(name, ran) ==
  /\ call' = name
  /\ result' = ran.result
  /\ tiers' = ran.tiers
  /\ UNCHANGED input
  /\ UNCHANGED <<appVars, loopVars, panelVars>>

CallParseDrizzleSchema ==
  /\ call = "none"
  /\ \E offsets \in Draws(PositionCalls(input)) :
       Returns("parseDrizzleSchema", parseDrizzleSchema(input, offsets))

CallParseDrizzleSchemaFallback ==
  /\ call = "none"
  /\ \E offsets \in Draws(PositionCalls(input)) :
       Returns("parseDrizzleSchemaFallback",
               Ran(parseDrizzleSchemaFallback(input, offsets), <<"fallback">>))

CallParsePrismaSchema ==
  /\ call = "none"
  /\ \E offsets \in Draws(PositionCalls(input)) :
       Returns("parsePrismaSchema", parsePrismaSchema(input, offsets))

CallParsePrismaSchemaFallback ==
  /\ call = "none"
  /\ \E offsets \in Draws(PositionCalls(input)) :
       Returns("parsePrismaSchemaFallback",
               Ran(parsePrismaSchemaFallback(input, offsets), <<"fallback">>))

Next ==
  \/ CallParseDrizzleSchema
  \/ CallParseDrizzleSchemaFallback
  \/ CallParsePrismaSchema
  \/ CallParsePrismaSchemaFallback

Spec == Init /\ [][Next]_vars

\* the component on its own: no parser is called
InitApp ==
  /\ input = [kind |-> "null"]
  /\ call = "none"
  /\ result = NoResult
  /\ tiers = <<>>
  /\ AppInit
  /\ LoopInit
  /\ PanelInit

SpecApp == InitApp /\ [][AppNext]_vars

\* one run of one loop; a loop that can take a step takes it
InitLoops ==
  /\ input = [kind |-> "null"]
  /\ call = "none"
  /\ result = NoResult
  /\ tiers = <<>>
  /\ AppInit
  /\ storage = None
  /\ LoopInit
  /\ PanelInit

SpecLoops == InitLoops /\ [][LoopNext]_vars /\ WF_vars(LoopNext)

\* the panel on its own
InitPanel ==
  /\ input = [kind |-> "null"]
  /\ call = "none"
  /\ result = NoResult
  /\ tiers = <<>>
  /\ AppInit
  /\ storage = None
  /\ LoopInit
  /\ PanelInit

SpecPanel == InitPanel /\ [][PanelNext]_vars

TypeOK ==
  /\ call \in {"none", "parseDrizzleSchema", "parseDrizzleSchemaFallback",
               "parsePrismaSchema", "parsePrismaSchemaFallback"}
  /\ result.outcome \in {"none", "return", "throw"}
  /\ (call = "none") = (result.outcome = "none")

(***************************************************************************)
(* What the claims speak about                                             *)
(***************************************************************************)
Called == call # "none"
Succeeded == Called /\ result.outcome = "return" /\ result.success
Tables == result.data[1].tables
Relationships == result.data[1].relationships
Enums == result.data[1].enums
Went(through) == through \in Range(tiers)

Cleaned == IF IsText(input) THEN CleanCode(input) ELSE <<>>

\* the fallback parser of the orchestrator that was called
FallbackOf(name, schemaCode, offsets) ==
  IF name = "parseDrizzleSchema"
  THEN parseDrizzleSchemaFallback(schemaCode, offsets)
  ELSE parsePrismaSchemaFallback(schemaCode, offsets)

\* the structural tier is reached and cannot complete: the text passes the
\* checks in front of it and is no module of the language (fluent dialect),
\* or overflows the argument list of push (block dialect)
StructuralRaises ==
  /\ IsText(input)
  /\ \/ /\ call = "parseDrizzleSchema"
        /\ LooksLikeDrizzle(Cleaned)
        /\ ~AcornParses(Cleaned)
     \/ /\ call = "parsePrismaSchema"
        /\ LooksLikePrisma(Cleaned)
        /\ input.oversize

(* C1: whatever the input (not a string, empty, unparseable, of the other
   dialect, valid), each of the four parsers returns a ParseResult; no
   exception leaves the call, and a failure carries success = false with an
   error message. *)
C1_NoExceptionEscapes ==
  Called =>
    /\ result.outcome = "return"
    /\ ~result.success => (result.error # None /\ result.error[1] # "")

\* the fallback's own catch turned an exception into a failure result
C1_Witness ==
  /\ call = "parseDrizzleSchemaFallback"
  /\ input.kind = "symbol"
  /\ result.outcome = "return"
  /\ ~result.success
  /\ result.error = Some("Cannot convert a Symbol value to a string")

(* C2: when the structural parser of either dialect raises an exception (a
   syntax error of the syntax-tree construction included), the matching
   fallback parser is called and what it returns, success or failure, is the
   final result; the exception of the structural parser is not reported
   while the fallback returns. *)
C2_FallbackResultSurfaced ==
  /\ StructuralRaises => Went("raised")
  /\ (call \in {"parseDrizzleSchema", "parsePrismaSchema"} /\ Went("raised")) =>
       /\ Went("fallback")
       /\ \E offsets \in Draws(PositionCalls(input)) :
            result = FallbackOf(call, input, offsets)

\* a syntax error in text that still holds a table the fallback's regex finds
C2_Witness ==
  /\ call = "parseDrizzleSchema"
  /\ StructuralRaises
  /\ tiers = <<"structural", "raised", "fallback">>
  /\ Succeeded
  /\ Len(Tables) > 0

\* an exported table declaration in a call shape the second pass passes over
UnrecognizedTableShape(it) ==
  it.kind = "table" /\ it.exported /\ ~TablePassRecognizes(it)

(* C3: fallback activation: for syntactically valid fluent-dialect text that
   declares a table in a call shape the structural table pass does not
   recognize, parseDrizzleSchema returns success = true with a table list
   that is not empty. *)
C3_FallbackActivation ==
  (/\ call = "parseDrizzleSchema"
   /\ AcornParses(Cleaned)
   /\ \E i \in 1..Len(Cleaned) : UnrecognizedTableShape(Cleaned[i]))
  => (Succeeded /\ Len(Tables) > 0)

\* the comment-stripped text holds no table/model keyword and no enum keyword
\* of the dialect of the parser called
NoDeclarationKeyword ==
  /\ IsText(input)
  /\ \/ /\ call = "parseDrizzleSchema"
        /\ ~LooksLikeDrizzle(Cleaned)
        /\ \A i \in 1..Len(Cleaned) : Cleaned[i].kind # "enum"
     \/ /\ call = "parsePrismaSchema"
        /\ ~LooksLikePrisma(Cleaned)

RejectedAsForeign ==
  /\ result.outcome = "return"
  /\ ~result.success
  /\ result.error =
       IF call = "parseDrizzleSchema"
       THEN Some("No Drizzle table definitions found. Make sure you have pgTable(), mysqlTable(), or sqliteTable() calls.")
       ELSE Some("No Prisma models or enums found. Make sure you have model definitions.")
  /\ tiers = <<>>

(* C4 as stated: dialect rejection: when the comment-stripped input holds
   neither a table/model keyword nor the enum keyword of the dialect, the
   parser returns a failure whose message says that no declarations were
   found, without entering the structural passes or the fallback. *)
C4_AsStated == NoDeclarationKeyword => RejectedAsForeign

(* C4, amended: dialect rejection holds when the comment-stripped input is
   not empty: text that is empty, or empty once its comments are removed, is
   rejected before the keyword check with a message about the input itself,
   also without entering either parser. *)
C4_DialectRejection ==
  /\ (NoDeclarationKeyword /\ Cleaned # <<>>) => RejectedAsForeign
  /\ (NoDeclarationKeyword /\ Cleaned = <<>>) =>
       (~result.success /\ tiers = <<>> /\
        result.error \in {Some("Invalid schema code provided"),
                          Some("Schema code is empty after cleaning")})

\* block-dialect text without model or enum, handed to parsePrismaSchema
C4_Witness ==
  /\ call = "parsePrismaSchema"
  /\ IsText(input)
  /\ Cleaned = <<DatasourceItem>>
  /\ RejectedAsForeign

\* the kinds of the declarations of the dialect of the parser called
EnumKind == IF call = "parseDrizzleSchema" THEN "enum" ELSE "penum"
TableKind == IF call = "parseDrizzleSchema" THEN "table" ELSE "model"

\* the comment-stripped text declares an enum and no table or model
DeclaresOnlyEnums ==
  /\ \E i \in 1..Len(Cleaned) : Cleaned[i].kind = EnumKind
  /\ \A i \in 1..Len(Cleaned) : Cleaned[i].kind # TableKind

(* C5: in both dialects a structural parse that completes without an
   exception fails exactly when it extracted no table and no enum; in
   particular, text that declares at least one enum and no table or model is
   answered with a success that carries the enums. *)
C5_EmptyResultPolicy ==
  (/\ call \in {"parseDrizzleSchema", "parsePrismaSchema"}
   /\ IsText(input)
   /\ ~input.oversize
   /\ call = "parseDrizzleSchema" => AcornParses(Cleaned))
  => /\ tiers = <<"structural">> =>
          (~result.success <=>
             (/\ \A i \in 1..Len(Cleaned) : Cleaned[i].kind # EnumKind
              /\ \A i \in 1..Len(Cleaned) :
                   Cleaned[i].kind = TableKind =>
                     (call = "parseDrizzleSchema" /\ ~TablePassRecognizes(Cleaned[i]))))
     /\ DeclaresOnlyEnums => (Succeeded /\ Len(Enums) > 0)

TableIdsReturned == {Tables[i].id : i \in 1..Len(Tables)}

(* C6: in every returned Schema both ends of every Relationship are ids of
   Tables of that Schema. *)
C6_NoDanglingEndpoints ==
  Succeeded =>
    \A i \in 1..Len(Relationships) :
      /\ Relationships[i].source \in TableIdsReturned
      /\ Relationships[i].target \in TableIdsReturned

(* C7: in every returned Schema the ids of the Tables are pairwise distinct,
   also when the text declares an identifier or a model name twice. *)
C7_UniqueTableIds ==
  Succeeded =>
    \A i, j \in 1..Len(Tables) : i # j => Tables[i].id # Tables[j].id

\* the table declarations the returned Tables were made from, in order: the
\* ones the fallback's regex matches in the text if the fallback produced the
\* result, else the ones the table pass recognizes in the syntax tree
ExtractedDecls ==
  IF ~IsText(input) THEN <<>>
  ELSE IF Went("fallback") THEN SelectSeq(input.items, TableRegexMatches)
  ELSE SelectSeq(Cleaned, TablePassRecognizes)

\* the columns of a declaration whose chain has .references(() => other.col)
RefColumnsOf(decl) ==
  {c \in Range(decl.cols) :
     c.prop = "column" /\ \E m \in Range(c.mods) : m.name = "references" /\ m.target # None}

RefTargetOf(c) ==
  (CHOOSE m \in Range(c.mods) : m.name = "references" /\ m.target # None).target[1]

\* the Relationship the claim names for column c of declaration decl
ExpectedRelationship(decl, c) ==
  [id |-> "rel-" \o decl.id \o "-" \o c.name \o "-" \o RefTargetOf(c).table,
   source |-> decl.id,
   target |-> RefTargetOf(c).table,
   sourceColumn |-> c.name,
   targetColumn |-> RefTargetOf(c).column]

WithId(id) == {i \in 1..Len(Relationships) : Relationships[i].id = id}

(* C8: reference synthesis: for a table t of the Schema with a
   column c whose chain has .references(() => other.col), the Schema has
   exactly one Relationship with id "rel-t-c-other", and it has source t,
   target other, sourceColumn c, targetColumn col, whatever else the text
   declares. *)
C8_ReferenceSynthesis ==
  (call = "parseDrizzleSchema" /\ Succeeded) =>
    \A decl \in Range(ExtractedDecls) : \A c \in RefColumnsOf(decl) :
      /\ Cardinality(WithId(ExpectedRelationship(decl, c).id)) = 1
      /\ \A i \in WithId(ExpectedRelationship(decl, c).id) :
           Relationships[i] = ExpectedRelationship(decl, c)


\* the exported table declarations of the comment-stripped text
ExportedTableDecls == SelectSeq(Cleaned, LAMBDA it : it.kind = "table" /\ it.exported)

(* C9: round-trip shape: for syntactically valid fluent-dialect text with N
   table declarations, N >= 1, no relations helper and no inline reference,
   parseDrizzleSchema returns a success with exactly the N Tables, in the
   order of their declarations, and no Relationship. *)
C9_RoundTripShape ==
  (/\ call = "parseDrizzleSchema"
   /\ IsText(input)
   /\ AcornParses(Cleaned)
   /\ Len(ExportedTableDecls) >= 1
   /\ \A i \in 1..Len(Cleaned) :
        /\ Cleaned[i].kind # "relations"
        /\ Cleaned[i].kind = "table" => RefColumnsOf(Cleaned[i]) = {})
  => /\ Succeeded
     /\ [i \in 1..Len(Tables) |-> Tables[i].id] =
          [i \in 1..Len(ExportedTableDecls) |-> ExportedTableDecls[i].id]
     /\ Len(Relationships) = 0

(* C10: the fluent scenario: export const users = pgTable('users', { id:
   serial('id').primaryKey(), email: varchar('email').unique() }) gives one
   Table with id and name "users" whose columns are id, of type exactly
   "serial" and a primary key, and email, of type exactly "varchar" and
   unique, and no Relationship. *)
C10_FluentScenario ==
  (/\ call = "parseDrizzleSchema"
   /\ input = Text(<<TableItem("users", "direct", TRUE, UserCols, FALSE)>>, FALSE))
  => /\ Succeeded
     /\ Len(Tables) = 1
     /\ Tables[1].id = "users"
     /\ Tables[1].name = "users"
     /\ Len(Tables[1].columns) = 2
     /\ Tables[1].columns[1].name = "id"
     /\ Tables[1].columns[1].type = "serial"
     /\ Tables[1].columns[1].isPrimaryKey
     /\ Tables[1].columns[2].name = "email"
     /\ Tables[1].columns[2].type = "varchar"
     /\ Tables[1].columns[2].isUnique
     /\ Len(Relationships) = 0

\* the Columns of the Tables of a returned Schema
ColumnsReturned ==
  IF Succeeded THEN UNION {Range(Tables[i].columns) : i \in 1..Len(Tables)} ELSE {}

(* C11: every Column a parser of either dialect emits has a non-empty type
   string; a property whose base type cannot be resolved (its value is not a
   chain rooted at a call of a type constructor) is left out of the table's
   columns instead of being emitted with type "". *)
C11_NonEmptyColumnType ==
  \A c \in ColumnsReturned : c.type # ""

(* C12: within every Table of a returned Schema the column names are
   pairwise distinct, also when the table declares a column itself and
   spreads a shared column group that has a column of the same name. *)
C12_UniqueColumnNames ==
  Succeeded =>
    \A t \in 1..Len(Tables) : \A i, j \in 1..Len(Tables[t].columns) :
      i # j => Tables[t].columns[i].name # Tables[t].columns[j].name

\* a ParseResult with the position of every Table blanked
WithoutPositions(r) ==
  IF r.outcome = "return" /\ r.success
  THEN LET data == r.data[1]
           tables == [i \in 1..Len(data.tables) |->
                        [data.tables[i] EXCEPT !.position = [x |-> 0, y |-> 0]]]
       IN  [r EXCEPT !.data = Some([data EXCEPT !.tables = tables])]
  ELSE r

\* what calling the same parser once more on the same input gives when the
\* second call draws the random offsets given
SecondCall(offsets) ==
  CASE call = "parseDrizzleSchema" -> parseDrizzleSchema(input, offsets).result
    [] call = "parseDrizzleSchemaFallback" -> parseDrizzleSchemaFallback(input, offsets)
    [] call = "parsePrismaSchema" -> parsePrismaSchema(input, offsets).result
    [] call = "parsePrismaSchemaFallback" -> parsePrismaSchemaFallback(input, offsets)

(* C13: idempotent typing: calling the same parser twice on the same input
   gives the same success tag (and error), and Tables, Columns, Indexes,
   Enums and Relationships equal in every field except the Table position,
   whatever the two calls draw for the positions. *)
C13_IdempotentTyping ==
  Called =>
    \A offsets \in Draws(PositionCalls(input)) :
      WithoutPositions(SecondCall(offsets)) = WithoutPositions(result)

\* two calls that differ, in the position of a table only
C13_Witness ==
  /\ Succeeded
  /\ Len(Tables) > 0
  /\ \E offsets \in Draws(PositionCalls(input)) :
       /\ SecondCall(offsets) # result
       /\ WithoutPositions(SecondCall(offsets)) = WithoutPositions(result)

\* the model blocks of the comment-stripped text and the names they declare
ModelDecls == SelectSeq(Cleaned, LAMBDA it : it.kind = "model")
DeclaredModels == {ModelDecls[i].name : i \in 1..Len(ModelDecls)}

\* the array the @relation attribute of a field line gives for key, <<>> if none
RelationArray(f, key) ==
  LET rel == SelectSeq(f.attrs, LAMBDA a : a.name = "relation")
      named == IF rel = <<>> THEN <<>>
               ELSE SelectSeq(rel[1].args, LAMBDA a : a.key = key)
  IN  IF named = <<>> THEN <<>> ELSE named[Len(named)].list

\* a relation-typed field line whose @relation supplies fields and references
IsOwningField(f) ==
  /\ f.line = "field"
  /\ f.type \in DeclaredModels
  /\ RelationArray(f, "fields") # <<>>
  /\ RelationArray(f, "references") # <<>>

\* source, target and the two columns the claim names for index i of fields
OwningPairs(modelName, f) ==
  LET fields == RelationArray(f, "fields")
      references == RelationArray(f, "references")
  IN  [i \in 1..Len(fields) |->
         [source |-> modelName, target |-> f.type, sourceColumn |-> fields[i],
          targetColumn |-> IF i <= Len(references) THEN references[i] ELSE references[1]]]

\* the pairs of all owning fields, model by model and field by field
AllOwningPairs ==
  Flatten([m \in 1..Len(ModelDecls) |->
    LET owning == SelectSeq(ModelDecls[m].lines, IsOwningField)
    IN  Flatten([k \in 1..Len(owning) |-> OwningPairs(ModelDecls[m].name, owning[k])])])

\* the Relationships returned, without their ids
PairsReturned ==
  [i \in 1..Len(Relationships) |->
     [source |-> Relationships[i].source, target |-> Relationships[i].target,
      sourceColumn |-> Relationships[i].sourceColumn,
      targetColumn |-> Relationships[i].targetColumn]]

Occurrences(s, x) == Cardinality({i \in 1..Len(s) : s[i] = x})

\* every relation-typed field is an owning field or a list: no field is left
\* to the implicit (foreign key by name) rule
OnlyExplicitRelations ==
  \A m \in 1..Len(ModelDecls) : \A f \in Range(ModelDecls[m].lines) :
    (f.line = "field" /\ f.type \in DeclaredModels) => (IsOwningField(f) \/ f.isArray)

(* C14: block-dialect explicit relation: each relation-typed field of model
   M whose @relation attribute supplies fields and references arrays gives
   exactly one Relationship per index i of fields, with source M, target the
   field's model type, sourceColumn fields[i] and targetColumn references[i]
   (references[0] when i is beyond the references array); the opposite,
   non-owning field adds none. *)
C14_ExplicitRelation ==
  (call = "parsePrismaSchema" /\ Succeeded /\ ~Went("fallback")) =>
    /\ \A p \in Range(AllOwningPairs) :
         Occurrences(PairsReturned, p) >= Occurrences(AllOwningPairs, p)
    /\ OnlyExplicitRelations => PairsReturned = AllOwningPairs

\* Post.author with fields [authorId, title] and references [id], next to
\* User with its list field posts or without
C14_Witness ==
  /\ call = "parsePrismaSchema"
  /\ Succeeded
  /\ OnlyExplicitRelations
  /\ Len(AllOwningPairs) = 2
  /\ PairsReturned =
       <<[source |-> "Post", target |-> "User", sourceColumn |-> "authorId", targetColumn |-> "id"],
         [source |-> "Post", target |-> "User", sourceColumn |-> "title", targetColumn |-> "id"]>>

\* the @@index([...]) and @@unique([...]) lines of a model block, in order
IndexLines(decl) ==
  SelectSeq(decl.lines, LAMBDA l :
    l.line = "attr" /\ l.attr \in {"index", "unique"} /\ Len(l.columns) > 0)

\* columns and uniqueness of the Indexes of a Table, in order
IndexShapes(table) ==
  [i \in 1..Len(table.indexes) |->
     [columns |-> table.indexes[i].columns, isUnique |-> table.indexes[i].isUnique]]

(* C15: block-dialect index: each @@index([...]) or @@unique([...]) line of
   model M gives exactly one Index on table M, whose columns are the
   bracketed names in the order written and whose isUnique is true exactly
   for @@unique. *)
C15_BlockIndex ==
  (call = "parsePrismaSchema" /\ Succeeded /\ ~Went("fallback")) =>
    /\ Len(Tables) = Len(ModelDecls)
    /\ \A t \in 1..Len(Tables) :
         /\ Tables[t].id = ModelDecls[t].name
         /\ IndexShapes(Tables[t]) =
              [i \in 1..Len(IndexLines(ModelDecls[t])) |->
                 [columns |-> IndexLines(ModelDecls[t])[i].columns,
                  isUnique |-> IndexLines(ModelDecls[t])[i].attr = "unique"]]

\* @@unique([authorId, title]) in model Post
C15_Witness ==
  /\ call = "parsePrismaSchema"
  /\ Succeeded
  /\ \E t \in 1..Len(Tables) :
       /\ Tables[t].id = "Post"
       /\ IndexShapes(Tables[t]) = <<[columns |-> <<"authorId", "title">>, isUnique |-> TRUE]>>

(* C16: every ParseResult any of the four parsers returns is exactly one
   variant: success = true with data and no error, or success = false with
   a non-empty error message and no data; never both, never neither. *)
C16_ExactlyOneVariant ==
  Called =>
    /\ result.outcome = "return"
    /\ \/ result.success /\ result.data # None /\ result.error = None
       \/ ~result.success /\ result.data = None
            /\ result.error # None /\ result.error[1] # ""

\* the structural passes found nothing: the failure of the validation step
C16_Witness ==
  /\ call = "parseDrizzleSchema"
  /\ tiers = <<"structural">>
  /\ ~result.success
  /\ result.error = Some("No valid Drizzle tables or enums found in the schema")
  /\ result.data = None

\* the fluent fallback scanned the input to the end without an exception
FallbackScanCompleted ==
  /\ \/ call = "parseDrizzleSchemaFallback"
     \/ call = "parseDrizzleSchema" /\ Went("fallback")
  /\ \A offsets \in Draws(PositionCalls(input)) : ~DrizzleFallbackScan(input, offsets).threw

(* C17: the fluent-dialect fallback parser returns success = true whenever
   its scanning completes without throwing, also when it finds no table and
   no enum: data then has empty tables, relationships and enums. *)
C17_FallbackAlwaysSucceeds ==
  FallbackScanCompleted =>
    /\ Succeeded
    /\ (\A it \in Range(IF IsText(input) THEN input.items ELSE <<>>) :
          ~TableRegexMatches(it) /\ ~EnumRegexMatches(it))
         => (Tables = <<>> /\ Relationships = <<>> /\ Enums = <<>>)

\* text in which neither regular expression finds anything
C17_Witness ==
  /\ call = "parseDrizzleSchemaFallback"
  /\ IsText(input)
  /\ input.items # <<>>
  /\ Succeeded
  /\ Tables = <<>> /\ Relationships = <<>> /\ Enums = <<>>

\* the declarations const X = index(<name>).on(t.c1, ...) (or uniqueIndex) of
\* the comment-stripped text
ChainedIndexDecls ==
  SelectSeq(Cleaned, LAMBDA it : it.kind = "index" /\ it.form = "chained")

\* the structural passes of parseDrizzleSchema ran to their end
FluentPassesRan == call = "parseDrizzleSchema" /\ tiers = <<"structural">>

(* C19: fluent index pass: a top-level declaration
   const X = index(<name>).on(t.c1, t.c2, ...), or the uniqueIndex
   equivalent, where t is the id of a table of the table pass, appends
   exactly one Index to table t with columns [c1, c2, ...] in argument order
   and isUnique true exactly for uniqueIndex; when t is no collected table,
   no Index is added to any table. *)
C19_FluentIndexPass ==
  (FluentPassesRan /\ Succeeded) =>
    \A x \in Range(ChainedIndexDecls) :
      /\ \A t \in 1..Len(Tables) :
           Tables[t].id = x.table =>
             Occurrences(IndexShapes(Tables[t]),
                         [columns |-> x.columns, isUnique |-> x.unique]) >= 1
      /\ (x.table \notin TableIdsReturned /\ Len(ChainedIndexDecls) = 1) =>
           \A t \in 1..Len(Tables) : Tables[t].indexes = <<>>

(* C20: fluent table pass: an exported variable declaration is extracted as
   a Table (id the variable name, name the first string-literal argument,
   columns from the object-literal argument) for each of the three call
   shapes: the direct table-constructor call, the curried table-creator call
   whose callee is itself a call, and the namespaced <schemaObject>.table
   call. *)
C20_ThreeCallShapes ==
  FluentPassesRan =>
    \A d \in Range(ExportedTableDecls) :
      /\ Succeeded
      /\ \E t \in 1..Len(Tables) :
           /\ Tables[t].id = d.id
           /\ Tables[t].name = d.name
           /\ (\A c \in Range(d.cols) : c.prop = "column") =>
                [i \in 1..Len(Tables[t].columns) |-> Tables[t].columns[i].name] =
                  [i \in 1..Len(d.cols) |-> d.cols[i].name]

(***************************************************************************)
(* C18: schema persistence in DrizzleFlowApp                               *)
(***************************************************************************)
\* every effect has run and every requested update has been rendered
Quiescent == mounted /\ effects = <<>> /\ updates = <<>>

\* the stored text is the editor's text, and a saved non-empty text is what
\* the editor shows until the user changes it
PersistedAndRestored ==
  /\ storage = Some(schema)
  /\ localSchema = schema
  /\ (edits = 0 /\ saved # None /\ saved # Some("")) => schema = saved[1]

(* C18 as stated: after any sequence of schema edits, once the effects     *)
(* have run, the value stored under the schema storage key equals the      *)
(* editor's schema, and on mount a saved non-empty schema is restored and  *)
(* not lost to the initial persist of the empty default.                   *)
C18_AsStated == Quiescent => PersistedAndRestored

(* C18: the same, provided localStorage has accepted every getItem and     *)
(* setItem of the component; the panel's text equals the schema state in   *)
(* every quiescent state, whatever localStorage did.                       *)
C18_SchemaPersistence ==
  /\ (Quiescent /\ ~rejected) => PersistedAndRestored
  /\ Quiescent => localSchema = schema

\* a saved schema was restored on mount, the user then replaced it, and the
\* replacement is what storage holds
C18_Witness ==
  /\ Quiescent
  /\ ~rejected
  /\ saved = Some("a")
  /\ edits = 1
  /\ schema = "b"
  /\ localSchema = "b"
  /\ storage = Some("b")

(***************************************************************************)
(* C21, C22: the relations helper and inline references                    *)
(***************************************************************************)
\* the relations(...) declarations of the comment-stripped text, in order
HelperDecls == SelectSeq(Cleaned, LAMBDA it : it.kind = "relations")

\* one(target, { fields, references }) read pair by pair: field i with
\* reference i, or with the first reference beyond the references array
PairedRelationships(sourceTableName, entry) ==
  IF entry.kind = "one" /\ Len(entry.references) > 0
  THEN [i \in 1..Len(entry.fields) |->
          [id |-> "rel-" \o sourceTableName \o "-" \o entry.fields[i].column \o "-" \o entry.target,
           source |-> sourceTableName,
           target |-> entry.target,
           sourceColumn |-> entry.fields[i].column,
           targetColumn |-> entry.references[IF i <= Len(entry.references) THEN i ELSE 1].column]]
  ELSE <<>>

\* what the helper declarations of the text yield pair by pair, in order
HelperExpected ==
  Flatten([d \in 1..Len(HelperDecls) |->
    Flatten([e \in 1..Len(HelperDecls[d].entries) |->
      PairedRelationships(HelperDecls[d].source, HelperDecls[d].entries[e])])])

\* the inline references of the tables the structural parser returned
InlineExpected ==
  Flatten([d \in 1..Len(ExtractedDecls) |->
    LET cols == SelectSeq(ExtractedDecls[d].cols,
                  LAMBDA c : c \in RefColumnsOf(ExtractedDecls[d]))
    IN  [i \in 1..Len(cols) |-> ExpectedRelationship(ExtractedDecls[d], cols[i])]])

(* C21: the relation-helper pass: in relations(source, () => ({...})) each
   property one(target, { fields: [f0..fn], references: [r0..rm] }) yields
   one Relationship per index i of fields, from column fi to column ri (r0
   beyond the references array); a many(...) property yields none. *)
C21_RelationHelperPass ==
  (call = "parseDrizzleSchema" /\ Succeeded /\ tiers = <<"structural">>) =>
    Relationships = HelperExpected \o InlineExpected

\* the link a one(...) property declares with its first field and reference
FirstPair(sourceTableName, entry) ==
  IF entry.kind = "one" /\ Len(entry.fields) > 0 /\ Len(entry.references) > 0
  THEN <<[id |-> "rel-" \o sourceTableName \o "-" \o entry.fields[1].column \o "-" \o entry.target,
          source |-> sourceTableName,
          target |-> entry.target,
          sourceColumn |-> entry.fields[1].column,
          targetColumn |-> entry.references[1].column]>>
  ELSE <<>>

HelperLinks ==
  Flatten([d \in 1..Len(HelperDecls) |->
    Flatten([e \in 1..Len(HelperDecls[d].entries) |->
      FirstPair(HelperDecls[d].source, HelperDecls[d].entries[e])])])

\* the links the text declares both ways
DeclaredBothWays == Range(HelperLinks) \cap Range(InlineExpected)

(* C22: no deduplication across passes: a link declared both as an inline
   .references on a column and as a relations-helper one(...) entry is
   returned twice, as two Relationships with the same id and equal fields,
   the helper's entry before the inline reference's. *)
C22_NoDeduplication ==
  (call = "parseDrizzleSchema" /\ Succeeded /\ tiers = <<"structural">>) =>
    \A r \in DeclaredBothWays :
      \E i, j \in 1..Len(Relationships) :
        /\ i < j
        /\ Relationships[i] = r
        /\ Relationships[j] = r
        /\ i <= Len(HelperLinks)
        /\ j > Len(HelperLinks)

\* posts declares authorId with .references(() => users.id) and
\* postsRelations declares the same link; it is returned twice
C22_Witness ==
  /\ call = "parseDrizzleSchema"
  /\ Succeeded
  /\ tiers = <<"structural">>
  /\ DeclaredBothWays # {}
  /\ Len(Relationships) = 2
  /\ Relationships[1] = Relationships[2]

(***************************************************************************)
(* C23 .. C26: block-dialect fields                                        *)
(***************************************************************************)
\* the field lines of model block decl whose type is the name of a model
RelationFieldLines(decl) ==
  {f \in Range(decl.lines) : f.line = "field" /\ f.type \in DeclaredModels}

ColumnNames(table) == {table.columns[i].name : i \in 1..Len(table.columns)}

(* C23: block-dialect classification: a field whose type is the name of
   another model never appears among the columns of its table, with or
   without an @relation attribute. *)
C23_RelationFieldsExcluded ==
  (call = "parsePrismaSchema" /\ Succeeded) =>
    \A m \in 1..Len(ModelDecls) : \A f \in RelationFieldLines(ModelDecls[m]) :
      \A t \in 1..Len(Tables) :
        Tables[t].id = ModelDecls[m].name => f.name \notin ColumnNames(Tables[t])

\* the @db.<NativeType>(args) attributes of a field line
NativeAttrs(f) == SelectSeq(f.attrs, LAMBDA a : a.name = "db" /\ "member" \in DOMAIN a)

\* the column type the claim derives from a native type attribute
NativeColumnType(attr) ==
  toLowerCase(attr.member) \o
    (IF attr.args # <<>> THEN "(" \o attr.args[1].text \o ")" ELSE "")

\* the Columns of the Tables made from a model named name that have field
\* line f's name
ColumnsOfField(name, f) ==
  UNION {{c \in Range(Tables[t].columns) : c.name = f.name} :
           t \in {k \in 1..Len(Tables) : Tables[k].id = name}}

(* C24: block-dialect native type override: a field with a
   @db.<NativeType>(args) attribute is emitted with the column type derived
   from the native type and its arguments (String @db.VarChar(255) gives
   varchar(255)), in place of the dictionary's type for the declared type. *)
C24_NativeTypeOverride ==
  (call = "parsePrismaSchema" /\ Succeeded /\ ~Went("fallback")) =>
    \A m \in 1..Len(ModelDecls) : \A f \in Range(ModelDecls[m].lines) :
      (f.line = "field" /\ NativeAttrs(f) # <<>>) =>
        \A c \in ColumnsOfField(ModelDecls[m].name, f) :
          c.type = NativeColumnType(NativeAttrs(f)[1])

\* the @default(X) attributes of a field line and the X they are written with
DefaultAttrs(f) == SelectSeq(f.attrs, LAMBDA a : a.name = "default" /\ a.args # <<>>)

WrittenDefault(attr) ==
  IF attr.args[1].call THEN attr.args[1].text \o "()" ELSE attr.args[1].text

\* the defaultValue the claim names for X
NormalizedDefault(x) ==
  IF x \in {"uuid()", "cuid()"} THEN "gen_random_uuid()"
  ELSE IF x = "now()" THEN "now()"
  ELSE IF x = "autoincrement()" THEN "autoincrement"
  ELSE x

(* C25: block-dialect default normalization: for a field with @default(X)
   the emitted defaultValue is "gen_random_uuid()" when X is uuid() or
   cuid(), "now()" when X is now(), "autoincrement" when X is
   autoincrement(), and X verbatim otherwise. *)
C25_DefaultNormalization ==
  (call = "parsePrismaSchema" /\ Succeeded /\ ~Went("fallback")) =>
    \A m \in 1..Len(ModelDecls) : \A f \in Range(ModelDecls[m].lines) :
      (f.line = "field" /\ DefaultAttrs(f) # <<>>) =>
        \A c \in ColumnsOfField(ModelDecls[m].name, f) :
          c.defaultValue = Some(NormalizedDefault(WrittenDefault(DefaultAttrs(f)[1])))

\* the field lines of a model block, in order
FieldLines(decl) == SelectSeq(decl.lines, LAMBDA l : l.line = "field")

HasRelationAttr(f) == \E a \in Range(f.attrs) : a.name = "relation"

\* the first model block that declares name
ModelNamed(name) ==
  ModelDecls[CHOOSE i \in 1..Len(ModelDecls) :
               ModelDecls[i].name = name /\ \A j \in 1..(i - 1) : ModelDecls[j].name # name]

\* what the claim synthesizes for relation field f of decl without @relation
ImplicitExpected(decl, f) ==
  LET fks == SelectSeq(FieldLines(decl), LAMBDA g :
               \/ g.name = f.name \o "Id"
               \/ g.name = f.name \o "_id"
               \/ toLowerCase(g.name) = toLowerCase(f.name) \o "id")
      pks == SelectSeq(FieldLines(ModelNamed(f.type)), LAMBDA g :
               \E a \in Range(g.attrs) : a.name = "id")
  IN  IF ~f.isArray /\ fks # <<>> /\ pks # <<>>
      THEN <<[source |-> decl.name, target |-> f.type,
              sourceColumn |-> fks[1].name, targetColumn |-> pks[1].name]>>
      ELSE <<>>

\* the pairs of one field line: none for a scalar field, those of its
\* @relation attribute, or the implicit one
PairsOfField(decl, f) ==
  IF f.type \notin DeclaredModels THEN <<>>
  ELSE IF HasRelationAttr(f)
  THEN IF IsOwningField(f) THEN OwningPairs(decl.name, f) ELSE <<>>
  ELSE ImplicitExpected(decl, f)

AllPairsExpected ==
  Flatten([m \in 1..Len(ModelDecls) |->
    Flatten([k \in 1..Len(FieldLines(ModelDecls[m])) |->
      PairsOfField(ModelDecls[m], FieldLines(ModelDecls[m])[k])])])

\* the relation fields without @relation of the text
ImplicitFields ==
  {<<m, f>> \in (1..Len(ModelDecls)) \X UNION {Range(ModelDecls[i].lines) : i \in 1..Len(ModelDecls)} :
     /\ f \in Range(FieldLines(ModelDecls[m]))
     /\ f.type \in DeclaredModels
     /\ ~HasRelationAttr(f)}

(* C26: block-dialect implicit relation: a relation-typed field f of model
   M without @relation gives exactly one Relationship when f is not a list,
   M has a field named fId, f_id or (ignoring case) fid and the target model
   has an @id field, from that foreign-key field to the target's id field;
   in every other case, and always when f is a list, it gives none. *)
C26_ImplicitRelation ==
  (call = "parsePrismaSchema" /\ Succeeded /\ ~Went("fallback")) =>
    PairsReturned = AllPairsExpected

\* Post { id, authorId, author User } next to User { id @id ... }: one
\* Relationship from Post.authorId to User.id
C26_Witness ==
  /\ call = "parsePrismaSchema"
  /\ Succeeded
  /\ ImplicitFields # {}
  /\ PairsReturned =
       <<[source |-> "Post", target |-> "User", sourceColumn |-> "authorId", targetColumn |-> "id"]>>

(***************************************************************************)
(* C27: termination                                                        *)
(***************************************************************************)
Running == loop \in {"exec", "scan", "unwindColumn", "unwindReferences", "walk"}

\* what a running loop has left: characters behind lastIndex or i, layers
\* below the current expression, nodes not called back
Remaining ==
  CASE loop \in {"exec", "scan"} -> Len(chars) - position
    [] loop \in {"unwindColumn", "unwindReferences"} -> Len(expr) - position
    [] loop = "walk" -> Len(syntaxTree) - Len(seen)
    [] OTHER -> 0

\* an iteration leaves less than it found and never less than nothing
Advances == (loop' = loop) => (Remaining' < Remaining /\ Remaining' >= 0)

\* the scanner has seen the characters 0 .. length - 1, each once, and the
\* walk every node of the tree once, when they return
VisitedOnce ==
  /\ (loop = "scan" /\ loop' = "returned") =>
       seen = [k \in 1..Len(chars) |-> k - 1]
  /\ (loop = "walk" /\ loop' = "returned") =>
       /\ Len(seen) = Len(syntaxTree)
       /\ Range(seen) = 1..Len(syntaxTree)

(* C27: termination: the loops of the parsers return after finitely many
   steps: each exec loop of a global regular expression advances on every
   iteration, the attribute-argument scanner visits each character once, the
   unwinding of a method chain strictly descends the chain, and the walk of
   the syntax tree visits each node once. *)
C27_Termination ==
  /\ [][Advances /\ VisitedOnce]_loopVars
  /\ <>(loop = "returned")

\* the exec loop has found both attributes of "@a@a" and has returned
C27_Witness ==
  /\ loop = "returned"
  /\ chars = <<"@", "a", "@", "a">>
  /\ seen = <<0, 2>>

(***************************************************************************)
(* C28: the panel's state under overlapping requests                       *)
(***************************************************************************)
\* every timer has fired
TimersDone == timers = <<>>

(* C28: after any sequence of handlePanelStateChange requests (HIDDEN or
   EXPANDED, arbitrarily spaced in time) and once all pending timers have
   fired, panelState is the state requested last; the delayed setPanelState
   of an earlier HIDDEN request never overrides a later EXPANDED request. *)
C28_LatestRequestWins ==
  (TimersDone /\ requested # None) => panelState = requested[1]

(***************************************************************************)
(* C29: comments across the tiers                                          *)
(***************************************************************************)
\* the name a table, model or enum declaration declares
NameDeclared(it) == IF it.kind \in {"table", "enum"} THEN it.id ELSE it.name

Declarations ==
  IF IsText(input)
  THEN {it \in Range(input.items) : it.kind \in {"table", "enum", "model", "penum"}}
  ELSE {}

\* the names declared inside comments and nowhere else in the text
CommentedOnly ==
  {NameDeclared(it) : it \in {d \in Declarations : d.commented}}
    \ {NameDeclared(it) : it \in {d \in Declarations : ~d.commented}}

(* C29: comment stripping holds across the tiers: a table, model or enum
   declaration that appears only inside a comment never appears in the
   Schema parseDrizzleSchema or parsePrismaSchema returns, whether the
   structural parser or the fallback parser produced it. *)
C29_CommentsStrippedAcrossTiers ==
  (call \in {"parseDrizzleSchema", "parsePrismaSchema"} /\ Succeeded) =>
    /\ \A i \in 1..Len(Tables) : Tables[i].id \notin CommentedOnly
    /\ \A i \in 1..Len(Enums) : Enums[i].name \notin CommentedOnly

(***************************************************************************)
(* C30: the validation status                                              *)
(***************************************************************************)
\* the component has parsed its schema text with the parser of its ORM type
AppParsed ==
  /\ call \in {"parseDrizzleSchema", "parsePrismaSchema"}
  /\ IsText(input)
  /\ result.outcome = "return"

CurrentParseResult == parseResultOf(input, result)
CurrentStats == stats(CurrentParseResult)

(* C30: stats.validationStatus is VALID exactly when the current parse
   result is a success carrying data, and PENDING in every other case
   (blank schema or failed parse); INVALID is never produced, and with
   PENDING status and zero counts the metrics bar renders nothing. *)
C30_ValidationStatus ==
  AppParsed =>
    /\ (CurrentStats.validationStatus = "valid") <=>
         (CurrentParseResult # None /\ result.success /\ result.data # None)
    /\ CurrentStats.validationStatus # "valid" => CurrentStats.validationStatus = "pending"
    /\ CurrentStats.validationStatus = "pending" =>
         (/\ CurrentStats.tableCount = 0
          /\ CurrentStats.relationshipCount = 0
          /\ ~MetricsBarRenders(CurrentStats))

\* a text that is not blank and whose parse failed: PENDING, nothing rendered
C30_Witness ==
  /\ AppParsed
  /\ ~IsBlank(input)
  /\ ~result.success
  /\ CurrentStats.validationStatus = "pending"
  /\ ~MetricsBarRenders(CurrentStats)

====
